---- MODULE Spec2Model ----
(***************************************************************************)
(* A model of the spotinst-metrics-exporter cost collector: the name       *)
(* normalisation and cost merge of aggregateHighCardinalityResources, the  *)
(* label cache of K8sOceanLabelRetriever and the collection pass of        *)
(* OceanAWSClusterCostsCollector.                                          *)
(*                                                                         *)
(* Go strings are modelled as sequences: resource names handled by the     *)
(* regular expression are sequences of one-character strings.              *)
(***************************************************************************)
EXTENDS Integers, Sequences, FiniteSets, Bags, TLC

VARIABLES
    nName,        \* normalisation harness: the identifier being normalised
    nOrig,        \* normalisation harness: the identifier as first given
    nApplied,     \* normalisation harness: how often the step was applied
    resources,    \* reducer: the records the argument slice points to (mutable)
    rInput,       \* reducer: the records as they were before the call
    cleaned,      \* reducer: the returned records, as indices into resources
    rpc,          \* reducer: "idle" before the call, "done" after it
    clusters,     \* collector and retriever: c.clusters
    labelMappings,\* collector: c.labelMappings
    retriever,    \* collector: "cache" for K8sOceanLabelRetriever, "any" for
                  \* another implementation of K8sLabelRetriever
    cpc,          \* Collect: "idle", "fetch", "resources", "namespaces", "done"
    cIdx,         \* Collect: position in c.clusters
    rIdx,         \* collectClusterCosts: position in the resources
    aggregatedNamespaceCost, \* collectClusterCosts: the namespace totals
    emitted,      \* the samples sent on ch, a bag
    fetched,      \* history: the outcome of GetClusterAggregatedCosts per cluster
    looked,       \* history: the outcome of GetLabelFor per cluster and record
    nsLooked,     \* history: the outcome of GetLabelFor per cluster and namespace
    labelCache,   \* retriever: cache key -> [labels, expires]
    now,          \* minutes since the start of the process
    ppc,          \* PopulateOnce: "idle" or "running"
    pIdx,         \* PopulateOnce: position in c.clusters
    populations,  \* PopulateOnce calls that have returned
    populated,    \* history: the workloads and namespaces last written
    mpc,          \* main: the position in mainProgram
    lpc,          \* PopulationLoop: "none" before go, then "sleep" or "populate"
    sleepFrom,    \* PopulationLoop: when time.Sleep was called
    calls,        \* PopulateOnce, per caller: position, cluster index, and the
                  \* labelCache.Set calls left for the output at hand
    refresh,      \* history: the last PopulateOnce begun: its caller, the cache
                  \* before it, and the outcome of GetClusterCosts per cluster
    waited,       \* history: the duration of each time.Sleep of the loop
    written,      \* history: cache key -> time and labels of its last Set
    today,        \* the calendar date of time.Now(): [year, month, day]
    window,       \* per caller: the fromDate and toDate it computed, or <<>>
    flagMappings, \* the labels.Mappings the --resource-labels flag fills
    flagValue,    \* history: the argument of the last Mappings.Set
    flagBefore,   \* history: the mappings before the last Mappings.Set
    flagErr,      \* history: whether the last Mappings.Set returned an error
    flagSets,     \* the calls of Mappings.Set so far
    lv,           \* history: the last Mappings.LabelValues call: its receiver,
                  \* its argument and its result; <<>> before the first
    passes,       \* per scrape in progress: the local variables of its Collect
                  \* call, the responses it got and the namespace samples it sent
    keyWritten,   \* history: per (cluster, kind, namespace, identifier) the
                  \* labels last stored for it
    keyAsked      \* history: the last GetLabelFor of the key harness and its
                  \* answer; <<>> before the first

reducerVars == <<nName, nOrig, nApplied, resources, rInput, cleaned, rpc>>

configVars == <<clusters, labelMappings, retriever>>

collectVars == <<cpc, cIdx, rIdx, aggregatedNamespaceCost, emitted, fetched,
                 looked, nsLooked>>

cacheVars == <<labelCache, now, ppc, pIdx, populations, populated>>

lifeVars == <<mpc, lpc, sleepFrom, calls, refresh, waited, written>>

windowVars == <<today, window>>

flagVars == <<flagMappings, flagValue, flagBefore, flagErr, flagSets, lv>>

scrapeVars == <<passes>>

keyVars == <<keyWritten, keyAsked>>

vars == <<reducerVars, configVars, collectVars, cacheVars, lifeVars, windowVars,
         flagVars, scrapeVars, keyVars>>

\* The goroutines that call PopulateOnce: main, and PopulationLoop.
Callers == {"main", "loop"}

IdleCall == [pc |-> "idle", idx |-> 0, pending |-> <<>>]

\* main has not run, the loop does not exist, nothing was read or written.
WindowCallers == {"Collect", "PopulateOnce"}

InitWindowIdle ==
    /\ today = [year |-> 2024, month |-> 3, day |-> 15]
    /\ window = [c \in WindowCallers |-> <<>>]

\* var labelMappings labels.Mappings, before the flags are parsed.
InitFlagIdle ==
    /\ flagMappings = <<>>
    /\ flagValue = <<>>
    /\ flagBefore = <<>>
    /\ flagErr = FALSE
    /\ flagSets = 0
    /\ lv = <<>>

\* No scrape has come in.
InitScrapesIdle == passes = <<>>

InitKeysIdle ==
    /\ keyWritten = <<>>
    /\ keyAsked = <<>>

InitLifeIdle ==
    /\ mpc = 1
    /\ lpc = "none"
    /\ sleepFrom = 0
    /\ calls = [c \in Callers |-> IdleCall]
    /\ refresh = [by |-> "none", before |-> <<>>, outs |-> <<>>]
    /\ waited = <<>>
    /\ written = <<>>

(***************************************************************************)
(* Bounds of the model.                                                    *)
(***************************************************************************)
MaxFrags == 3        \* fragments concatenated into one identifier
MaxResources == 3    \* records in one namespace/kind bucket
MaxCost == 2         \* costs are drawn from 1..MaxCost

(***************************************************************************)
(* Characters and fragments of identifiers.                                *)
(***************************************************************************)
Digits == {"0", "1", "2", "3", "4", "5", "6", "7", "8", "9"}

HexDigits == Digits \cup {"a", "b", "c", "d", "e", "f", "A", "B", "C", "D", "E", "F"}

FragWord == <<"j", "o", "b">>
FragHyphen == <<"-">>
FragStamp == <<"2", "7", "7", "5", "2", "1", "4", "5">>
FragSeven == <<"1", "2", "3", "4", "5", "6", "7">>
FragOne == <<"1">>
FragLater == <<"2", "7", "7", "5", "2", "2", "0", "0">>
FragBar == <<"b", "a", "r">>
FragUUID ==
    <<"a", "b", "c", "d", "e", "f", "a", "b", "-", "1", "2", "3", "4", "-",
      "1", "2", "3", "4", "-", "1", "2", "3", "4", "-",
      "a", "b", "c", "d", "e", "f", "a", "b", "c", "d", "e", "f">>

Fragments == {FragWord, FragHyphen, FragStamp, FragSeven, FragOne, FragUUID}

RECURSIVE NamesOf(_)
NamesOf(k) ==
    IF k = 0 THEN {<<>>}
    ELSE LET shorter == NamesOf(k - 1)
         IN  shorter \cup {n \o f : n \in shorter, f \in Fragments}

\* Identifiers with two matches of uuidRegex, adjacent or separated by one
\* hyphen, between two words.
TwoMatchNames ==
    { FragWord \o FragHyphen \o a \o sep \o b \o FragHyphen \o FragBar :
          a \in {FragStamp, FragUUID}, b \in {FragLater, FragUUID},
          sep \in {<<>>, FragHyphen} }

\* The identifiers the normalisation is applied to.
Identifiers == NamesOf(MaxFrags) \cup TwoMatchNames

(***************************************************************************)
(* uuidRegex: [0-9]{8}|[0-9a-fA-F]{8}-[0-9a-fA-F]{4}-...-[0-9a-fA-F]{12}   *)
(***************************************************************************)
AllIn(s, from, count, class) ==
    /\ from + count - 1 <= Len(s)
    /\ \A k \in from .. (from + count - 1) : s[k] \in class

HyphenAt(s, k) == k <= Len(s) /\ s[k] = "-"

MatchStamp(s, i) == AllIn(s, i, 8, Digits)

MatchUUID(s, i) ==
    /\ AllIn(s, i, 8, HexDigits)
    /\ HyphenAt(s, i + 8)
    /\ AllIn(s, i + 9, 4, HexDigits)
    /\ HyphenAt(s, i + 13)
    /\ AllIn(s, i + 14, 4, HexDigits)
    /\ HyphenAt(s, i + 18)
    /\ AllIn(s, i + 19, 4, HexDigits)
    /\ HyphenAt(s, i + 23)
    /\ AllIn(s, i + 24, 12, HexDigits)

\* The length of the match of uuidRegex that starts at position i, 0 if there
\* is none. The first alternative wins where both match (leftmost-first).
uuidRegex(s, i) ==
    IF MatchStamp(s, i) THEN 8
    ELSE IF MatchUUID(s, i) THEN 36
    ELSE 0

\* uuidRegex.ReplaceAllString(oldName, ""): the non-overlapping matches, found
\* from left to right, are removed.
RECURSIVE ReplaceAllString(_, _)
ReplaceAllString(s, i) ==
    IF i > Len(s) THEN <<>>
    ELSE LET m == uuidRegex(s, i)
         IN  IF m > 0 THEN ReplaceAllString(s, i + m)
             ELSE <<s[i]>> \o ReplaceAllString(s, i + 1)

\* strings.ReplaceAll(name, "--", "-"): one left-to-right pass, the matches
\* do not overlap.
RECURSIVE ReplaceAllHyphens(_, _)
ReplaceAllHyphens(s, i) ==
    IF i > Len(s) THEN <<>>
    ELSE IF HyphenAt(s, i) /\ HyphenAt(s, i + 1)
         THEN <<"-">> \o ReplaceAllHyphens(s, i + 2)
         ELSE <<s[i]>> \o ReplaceAllHyphens(s, i + 1)

\* strings.Trim(s, "-")
RECURSIVE Trim(_)
Trim(s) ==
    IF s = <<>> THEN s
    ELSE IF Head(s) = "-" THEN Trim(Tail(s))
    ELSE IF s[Len(s)] = "-" THEN Trim(SubSeq(s, 1, Len(s) - 1))
    ELSE s

\* The name a record gets in aggregateHighCardinalityResources.
NormalizeName(oldName) ==
    LET name == ReplaceAllString(oldName, 1)
    IN  IF name # oldName
        THEN Trim(ReplaceAllHyphens(name, 1))
        ELSE name

(***************************************************************************)
(* The normalisation applied to one identifier, repeatedly.                *)
(***************************************************************************)
InitReducerIdle ==
    /\ resources = <<>>
    /\ rInput = <<>>
    /\ cleaned = {}
    /\ rpc = "idle"

\* The collector and the retriever before main has built them.
InitCollectorFieldsIdle ==
    /\ clusters = <<>>
    /\ labelMappings = <<>>
    /\ retriever = "cache"
    /\ cpc = "idle"
    /\ cIdx = 0
    /\ rIdx = 0
    /\ aggregatedNamespaceCost = <<>>
    /\ emitted = EmptyBag
    /\ fetched = <<>>
    /\ looked = <<>>
    /\ nsLooked = <<>>
    /\ labelCache = <<>>
    /\ now = 0
    /\ ppc = "idle"
    /\ pIdx = 0
    /\ populations = 0
    /\ populated = {}

InitCollectorIdle ==
    /\ InitCollectorFieldsIdle
    /\ InitLifeIdle
    /\ InitScrapesIdle
    /\ InitKeysIdle
    /\ InitFlagIdle
    /\ InitWindowIdle

InitNormalize ==
    /\ nOrig \in Identifiers
    /\ nName = nOrig
    /\ nApplied = 0
    /\ InitReducerIdle
    /\ InitCollectorIdle

Normalize ==
    /\ nApplied < 2
    /\ nName' = NormalizeName(nName)
    /\ nApplied' = nApplied + 1
    /\ UNCHANGED <<nOrig, resources, rInput, cleaned, rpc>>
    /\ UNCHANGED <<configVars, scrapeVars, flagVars, keyVars, windowVars, collectVars, cacheVars, lifeVars>>

NextNormalize == Normalize

SpecNormalize == InitNormalize /\ [][NextNormalize]_vars

(***************************************************************************)
(* aggregateHighCardinalityResources on one namespace/kind bucket.         *)
(***************************************************************************)
\* The names of the records of a bucket: job instances that differ by their
\* timestamp, the bare job name, an unrelated name, and a name that is
\* nothing but a timestamp.
ResourceNames ==
    { FragWord \o FragHyphen \o FragStamp,
      FragWord \o FragHyphen \o FragLater,
      FragWord,
      FragBar,
      FragStamp }

Resource == [Name : ResourceNames, Cost : 1 .. MaxCost]

RECURSIVE SeqsUpTo(_, _)
SeqsUpTo(S, k) ==
    IF k = 0 THEN {<<>>}
    ELSE LET shorter == SeqsUpTo(S, k - 1)
         IN  shorter \cup {q \o <<x>> : q \in shorter, x \in S}

\* resourceMap[name] = resource, for a map from names to indices of records.
MapSet(map, name, i) ==
    [n \in (DOMAIN map) \cup {name} |-> IF n = name THEN i ELSE map[n]]

\* The loop over the argument slice, from its i-th record on. The records are
\* reached through pointers: the assignments to resource.Cost and
\* resource.Name change the caller's records.
RECURSIVE AggregateLoop(_, _, _)
AggregateLoop(res, resourceMap, i) ==
    IF i > Len(res) THEN [resources |-> res, resourceMap |-> resourceMap]
    ELSE LET oldName == res[i].Name
             stripped == ReplaceAllString(oldName, 1)
             changed == stripped # oldName
             name == IF changed THEN Trim(ReplaceAllHyphens(stripped, 1))
                     ELSE stripped
             cost == IF changed /\ name \in DOMAIN resourceMap
                     THEN res[i].Cost + res[resourceMap[name]].Cost
                     ELSE res[i].Cost
             updated == IF changed
                        THEN [res EXCEPT ![i] = [Name |-> name, Cost |-> cost]]
                        ELSE res
         IN  AggregateLoop(updated, MapSet(resourceMap, name, i), i + 1)

\* The empty map: make(map[string]*mcs.Resource, len(resources)).
EmptyMap == [n \in {} |-> 0]

\* The call: the records after it, and the indices of the records returned.
\* The order of the returned slice is that of a map iteration and is left
\* open: the result is the set of its elements.
AggregateResult(res) ==
    LET out == AggregateLoop(res, EmptyMap, 1)
    IN  [resources |-> out.resources,
         cleaned |-> {out.resourceMap[n] : n \in DOMAIN out.resourceMap}]

RECURSIVE SumCost(_, _)
SumCost(res, idx) ==
    IF idx = {} THEN 0
    ELSE LET k == CHOOSE k \in idx : TRUE
         IN  res[k].Cost + SumCost(res, idx \ {k})

\* The (name, cost) pairs of the records with the given indices.
Pairs(res, idx) == {<<res[k].Name, res[k].Cost>> : k \in idx}

InitNormalizeIdle ==
    /\ nOrig = <<>>
    /\ nName = <<>>
    /\ nApplied = 0

InitReducer ==
    /\ rInput \in SeqsUpTo(Resource, MaxResources)
    /\ resources = rInput
    /\ cleaned = {}
    /\ rpc = "idle"
    /\ InitNormalizeIdle
    /\ InitCollectorIdle

aggregateHighCardinalityResources ==
    /\ rpc = "idle"
    /\ LET out == AggregateResult(resources)
       IN  /\ resources' = out.resources
           /\ cleaned' = out.cleaned
    /\ rpc' = "done"
    /\ UNCHANGED <<rInput, nName, nOrig, nApplied>>
    /\ UNCHANGED <<configVars, scrapeVars, flagVars, keyVars, windowVars, collectVars, cacheVars, lifeVars>>

NextReducer == aggregateHighCardinalityResources

SpecReducer == InitReducer /\ [][NextReducer]_vars

\* C1: the costs of the returned records add up to the costs of the records
\* passed in.
C1_CostConserved ==
    rpc = "done" =>
        SumCost(resources, cleaned) = SumCost(rInput, DOMAIN rInput)

\* The records of a bucket in another order.
Reordered(res, p) == [k \in DOMAIN res |-> res[p[k]]]

Orderings(res) ==
    {p \in [DOMAIN res -> DOMAIN res] : \A a, b \in DOMAIN res : p[a] = p[b] => a = b}

\* C10: every reordering of the records passed in gives the same set of
\* (normalised name, cost) pairs.
C10_OrderIndependent ==
    rpc = "done" =>
        \A p \in Orderings(rInput) :
            LET other == AggregateResult(Reordered(rInput, p))
            IN  Pairs(other.resources, other.cleaned) = Pairs(resources, cleaned)

\* C9: applying the normalisation step to an already normalised identifier
\* gives the identifier back: the second application changes nothing.
C9_NormalizeIdempotent ==
    nApplied = 2 => nName = NormalizeName(nOrig)

(***************************************************************************)
(* The cost collector and the label retriever.                             *)
(*                                                                         *)
(* The strings of this part are sequences of pieces, a piece being a run   *)
(* without ":" or the ":" itself, so that the formatted cache key is the   *)
(* concatenation fmt.Sprintf builds.                                       *)
(***************************************************************************)
MaxRecords == 2      \* workload records in the billing responses of one scrape
MaxPopulations == 1  \* PopulateOnce calls in one run
MaxNow == 90         \* the clock stops here
TickMinutes == 45    \* the clock advances in steps of this many minutes

S(x) == <<x>>

\* cache.New(60*time.Minute, ...): cache.DefaultExpiration, in minutes.
DefaultExpiration == 60

Foo == [ID |-> S("foo"), Name |-> S("ocean-foo")]
Bar == [ID |-> S("bar"), Name |-> S("ocean-bar")]

\* The lists of clusters main may have fetched.
ClusterLists == {<<>>, <<Foo>>, <<Foo, Bar>>, <<Bar, Foo>>}

\* labels.Mapping and the lists --resource-labels may configure.
Mapping(resourceLabel, prometheusLabel) ==
    [resourceLabelName |-> resourceLabel, prometheusLabelName |-> prometheusLabel]

MappingLists ==
    { <<>>,
      <<Mapping("team", "team"), Mapping("app.kubernetes.io/name", "app")>> }

\* Mappings.LabelNames
LabelNames(m) == [k \in DOMAIN m |-> m[k].prometheusLabelName]

\* labels[key] of a Go map: the empty string for a missing key or a nil map.
MapValue(labels, key) == IF key \in DOMAIN labels THEN labels[key] ELSE <<>>

LabelValuesByPrometheusName(m, labels) ==
    [k \in DOMAIN m |-> MapValue(labels, m[k].prometheusLabelName)]

\* Mappings.LabelValues
LabelValues(m, labels) == [k \in DOMAIN m |-> MapValue(labels, m[k].resourceLabelName)]

\* The label sets of the metadata source.
WebLabels == ("team" :> S("core")) @@ ("app.kubernetes.io/name" :> S("web"))
TeamLabels == ("team" :> S("edge"))
NoLabels == <<>>

\* The result of GetLabelFor: (labels, nil) or (nil, err).
Hit(labels) == [found |-> TRUE, labels |-> labels]
Miss == [found |-> FALSE, labels |-> NoLabels]

\* aws.AggregatedCostResource: MetaData.Type, MetaData.Name,
\* MetaData.Namespace, Total, Storage.Total, Compute.Total (costs in cents).
CostRecord(type, name, namespace, total, storage, compute) ==
    [Type |-> S(type), Name |-> S(name), Namespace |-> S(namespace),
     Total |-> total, Storage |-> storage, Compute |-> compute]

\* The records a billing response is made of.
CostRecords ==
    { CostRecord("Deployment", "web", "foo-ns", 10, 1, 3),
      CostRecord("Job", "batch", "foo-ns", 7, 2, 2),
      CostRecord("Deployment", "web", "other-ns", 5, 0, 4),
      CostRecord("UnusedStorage", "UnusedStorage", "foo-ns", 4, 4, 0),
      [CostRecord("Job", "", "foo-ns", 2, 0, 1)
          EXCEPT !.Name = FragWord \o FragHyphen \o FragStamp],
      [CostRecord("Job", "", "foo-ns", 3, 1, 1)
          EXCEPT !.Name = FragWord \o FragHyphen \o FragLater],
      CostRecord("Deployment", "UnusedStorage", "foo-ns", 6, 1, 2) }

\* Summary.Total of a response that covers more than its records, as in the
\* response the test of the collector reads.
ClusterTotals == {200}

\* The sum of the totals of the records.
RECURSIVE SumTotals(_)
SumTotals(records) ==
    IF records = <<>> THEN 0
    ELSE Head(records).Total + SumTotals(Tail(records))

\* Summary.Total as the billing API may report it with the records: the sum
\* of their totals, or more.
ResponseTotals(records) == {SumTotals(records)} \cup ClusterTotals

\* The outcomes of GetClusterAggregatedCosts: an error, an output without
\* error whose AggregatedClusterCosts is empty, a result whose
\* TotalForDuration is nil, or a result with its total and its records.
FetchOutcomes(maxRecords) ==
    { [outcome |-> "error", total |-> 0, resources |-> <<>>],
      [outcome |-> "empty", total |-> 0, resources |-> <<>>],
      [outcome |-> "nil", total |-> 0, resources |-> <<>>] }
    \cup
    UNION { { [outcome |-> "ok", total |-> t, resources |-> r] :
                  t \in ResponseTotals(r) } :
            r \in SeqsUpTo(CostRecords, maxRecords) }

(***************************************************************************)
(* K8sOceanLabelRetriever                                                  *)
(***************************************************************************)
\* fmt.Sprintf("%s:%s:%s:%s", cluster, resourceType, namespace, resourceIdentifier)
cacheKeyViaIdentifier(resourceType, namespace, cluster, resourceIdentifier) ==
    cluster \o <<":">> \o resourceType \o <<":">> \o namespace \o <<":">>
        \o resourceIdentifier

\* The key of a workload is built from its app.kubernetes.io/name label.
cacheKey(resourceType, namespace, cluster, deployable) ==
    cacheKeyViaIdentifier(resourceType, namespace, cluster,
                          MapValue(deployable.Labels, "app.kubernetes.io/name"))

CacheGetUnexpiring(cache, key, time) ==
    IF key \in DOMAIN cache THEN Hit(cache[key].labels) ELSE Miss

CacheSetLabelByLabel(cache, key, labels, time) ==
    [k \in (DOMAIN cache) \cup {key} |->
        IF k = key
        THEN [labels |-> [l \in (DOMAIN labels) \ {"team"} |-> labels[l]],
              expires |-> time + DefaultExpiration]
        ELSE cache[k]]

\* labelCache.Get: an entry is found until its expiration has passed.
CacheGet(cache, key, time) ==
    IF key \in DOMAIN cache /\ time <= cache[key].expires
    THEN Hit(cache[key].labels)
    ELSE Miss

\* labelCache.Set(key, labels, cache.DefaultExpiration)
CacheSet(cache, key, labels, time) ==
    [k \in (DOMAIN cache) \cup {key} |->
        IF k = key THEN [labels |-> labels, expires |-> time + DefaultExpiration]
        ELSE cache[k]]

\* GetLabelFor of K8sOceanLabelRetriever.
GetLabelFor(resourceType, namespace, cluster, resourceIdentifier) ==
    CacheGet(labelCache,
             cacheKeyViaIdentifier(resourceType, namespace, cluster, resourceIdentifier),
             now)

\* What c.labelRetriever.GetLabelFor may return to the collector: the answer
\* of the cache, or any answer of another implementation of the interface.
RetrieverAnswers(resourceType, namespace, cluster, resourceIdentifier) ==
    IF retriever = "cache"
    THEN {GetLabelFor(resourceType, namespace, cluster, resourceIdentifier)}
    ELSE {Miss, Hit(TeamLabels)}

\* mcs.Resource and mcs.Namespace of the GetClusterCosts output.
Workload(name, labels) == [Name |-> S(name), Labels |-> labels]

McsNamespace(namespace, labels, deployments, jobs) ==
    [Namespace |-> S(namespace), Labels |-> labels, Deployments |-> deployments,
     Jobs |-> jobs, StatefulSets |-> <<>>, DaemonSets |-> <<>>]

\* The outcomes of GetClusterCosts for one cluster: an error, or the
\* namespaces of its ClusterCosts.
McsOutcomes ==
    { [outcome |-> "error", namespaces |-> <<>>],
      [outcome |-> "ok",
       namespaces |-> <<McsNamespace("foo-ns", TeamLabels,
                                     <<Workload("web", WebLabels)>>, <<>>)>>],
      [outcome |-> "ok",
       namespaces |-> <<McsNamespace("foo-ns", NoLabels,
                                     <<Workload("web", TeamLabels),
                                       Workload("api", NoLabels)>>,
                                     <<Workload("batch",
                                                "app.kubernetes.io/name" :> S("batch"))>>)>>] }

\* iterateOverResources, from the i-th resource on.
RECURSIVE iterateOverResources(_, _, _, _, _, _, _)
iterateOverResources(cache, resourceType, namespace, cluster, deployables, i, time) ==
    IF i > Len(deployables) THEN cache
    ELSE iterateOverResources(
             CacheSet(cache, cacheKey(resourceType, namespace, cluster, deployables[i]),
                      deployables[i].Labels, time),
             resourceType, namespace, cluster, deployables, i + 1, time)

\* The body of the loop over clusterCost.Namespaces.
StoreNamespace(cache, cluster, namespace, time) ==
    LET d == iterateOverResources(cache, S("Deployment"), namespace.Namespace, cluster,
                                  namespace.Deployments, 1, time)
        j == iterateOverResources(d, S("Job"), namespace.Namespace, cluster,
                                  namespace.Jobs, 1, time)
        t == iterateOverResources(j, S("StatefulSet"), namespace.Namespace, cluster,
                                  namespace.StatefulSets, 1, time)
        a == iterateOverResources(t, S("DaemonSet"), namespace.Namespace, cluster,
                                  namespace.DaemonSets, 1, time)
    IN  CacheSet(a,
                 cacheKeyViaIdentifier(S("Namespace"), namespace.Namespace, cluster,
                                       namespace.Namespace),
                 namespace.Labels, time)

RECURSIVE StoreNamespaces(_, _, _, _, _)
StoreNamespaces(cache, cluster, namespaces, i, time) ==
    IF i > Len(namespaces) THEN cache
    ELSE StoreNamespaces(StoreNamespace(cache, cluster, namespaces[i], time),
                         cluster, namespaces, i + 1, time)

\* History: the workloads and namespaces of a GetClusterCosts output, with
\* the labels the output gives them.
Discovered(cluster, namespaces, time) ==
    LET of(kind, namespace, list) ==
            { [cluster |-> cluster, kind |-> S(kind), namespace |-> namespace.Namespace,
               name |-> list[k].Name, labels |-> list[k].Labels,
               expires |-> time + DefaultExpiration] : k \in DOMAIN list }
    IN  UNION { of("Deployment", namespaces[n], namespaces[n].Deployments)
                \cup of("Job", namespaces[n], namespaces[n].Jobs)
                \cup of("StatefulSet", namespaces[n], namespaces[n].StatefulSets)
                \cup of("DaemonSet", namespaces[n], namespaces[n].DaemonSets)
                \cup { [cluster |-> cluster, kind |-> S("Namespace"),
                        namespace |-> namespaces[n].Namespace,
                        name |-> namespaces[n].Namespace,
                        labels |-> namespaces[n].Labels,
                        expires |-> time + DefaultExpiration] } : n \in DOMAIN namespaces }

SameResource(a, b) ==
    /\ a.cluster = b.cluster
    /\ a.kind = b.kind
    /\ a.namespace = b.namespace
    /\ a.name = b.name

\* main calls PopulateOnce before it registers the collector; PopulationLoop
\* calls it again later.
PopulateOnceBegin ==
    /\ retriever = "cache"
    /\ ppc = "idle"
    /\ populations < MaxPopulations
    /\ ppc' = "running"
    /\ pIdx' = 1
    /\ UNCHANGED <<labelCache, now, populations, populated>>
    /\ UNCHANGED <<reducerVars, configVars, scrapeVars, flagVars, keyVars, windowVars, collectVars, lifeVars>>

\* One iteration of the loop over c.clusters in PopulateOnce.
PopulateCluster ==
    /\ ppc = "running"
    /\ pIdx <= Len(clusters)
    /\ \E out \in McsOutcomes :
        LET cluster == clusters[pIdx].ID
            found == Discovered(cluster, out.namespaces, now)
        IN  IF out.outcome = "error"
            THEN UNCHANGED <<labelCache, populated>>
            ELSE /\ labelCache' = StoreNamespaces(labelCache, cluster, out.namespaces, 1, now)
                 /\ populated' =
                        {w \in populated : \A f \in found : ~SameResource(w, f)} \cup found
    /\ pIdx' = pIdx + 1
    /\ UNCHANGED <<now, ppc, populations>>
    /\ UNCHANGED <<reducerVars, configVars, scrapeVars, flagVars, keyVars, windowVars, collectVars, lifeVars>>

PopulateOnceReturn ==
    /\ ppc = "running"
    /\ pIdx > Len(clusters)
    /\ ppc' = "idle"
    /\ populations' = populations + 1
    /\ UNCHANGED <<labelCache, now, pIdx, populated>>
    /\ UNCHANGED <<reducerVars, configVars, scrapeVars, flagVars, keyVars, windowVars, collectVars, lifeVars>>

\* Time passes.
Tick ==
    /\ retriever = "cache"
    /\ now + TickMinutes <= MaxNow
    /\ now' = now + TickMinutes
    /\ UNCHANGED <<labelCache, ppc, pIdx, populations, populated>>
    /\ UNCHANGED <<reducerVars, configVars, scrapeVars, flagVars, keyVars, windowVars, collectVars, lifeVars>>

(***************************************************************************)
(* OceanAWSClusterCostsCollector                                           *)
(***************************************************************************)
\* The variable labels of the descriptors NewOceanAWSClusterCostsCollector
\* declares.
VariableLabels(desc) ==
    CASE desc = "cluster_cost" -> <<"ocean_id", "ocean_name">>
      [] desc = "namespace_cost" ->
            <<"ocean_id", "ocean_name", "namespace">> \o LabelNames(labelMappings)
      [] desc = "workload_cost" ->
            <<"ocean_id", "ocean_name", "namespace", "name", "workload">>
                \o LabelNames(labelMappings)
      [] desc = "workload_resource_cost" ->
            <<"ocean_id", "ocean_name", "namespace", "name", "workload", "resource">>
                \o LabelNames(labelMappings)

\* collectGaugeValue(ch, desc, value, labelValues): the sample sent on ch.
\* from, ns and part are history: the cluster and record the sample was made
\* for, its namespace, and the cost component it reports.
Sample(desc, value, labelValues, from, ns, part) ==
    [desc |-> desc, value |-> value, labelValues |-> labelValues,
     from |-> from, ns |-> ns, part |-> part]

Emit(bag, sample) == bag (+) SetToBag({sample})

clusterLabelValues(cluster) == <<cluster.ID, cluster.Name>>

\* workloadComputeCost := spotinst.Float64Value(workload.Compute.Total)
workloadComputeCost(workload) == workload.Compute

workloadNetworkCost(workload) ==
    workload.Total - workload.Storage - workloadComputeCost(workload)

SamplesDespiteError(from, cluster, workload, answer) ==
    LET labelValues == clusterLabelValues(cluster)
                           \o <<workload.Namespace, workload.Name, workload.Type>>
                           \o LabelValues(labelMappings, answer.labels)
    IN  SetToBag({Sample("workload_cost", workload.Total, labelValues,
                         from, workload.Namespace, "total")})

\* The samples collectWorkloadCosts sends for one record, given the answer
\* of GetLabelFor.
WorkloadSamples(from, cluster, workload, answer) ==
    IF ~answer.found THEN EmptyBag
    ELSE LET labelValues == clusterLabelValues(cluster)
                                \o <<workload.Namespace, workload.Name, workload.Type>>
                                \o LabelValues(labelMappings, answer.labels)
             w == Sample("workload_cost", workload.Total, labelValues,
                         from, workload.Namespace, "total")
             n == Sample("workload_resource_cost", workloadNetworkCost(workload),
                         Append(labelValues, S("network")),
                         from, workload.Namespace, "network")
             t == Sample("workload_resource_cost", workload.Storage,
                         Append(labelValues, S("storage")),
                         from, workload.Namespace, "storage")
             c == Sample("workload_resource_cost", workloadComputeCost(workload),
                         Append(labelValues, S("compute")),
                         from, workload.Namespace, "compute")
         IN  Emit(Emit(Emit(Emit(EmptyBag, w), n), t), c)

OverwriteNamespaceCost(costs, namespace, workloadCost) ==
    [n \in (DOMAIN costs) \cup {namespace} |->
        IF n = namespace THEN workloadCost ELSE costs[n]]

SeededNamespaceCost == (S("foo-ns") :> 5)

\* aggregatedNamespaceCost := make(map[string]float64)
EmptyNamespaceCost == <<>>

AddNamespaceCostTwice(costs, namespace, workloadCost) ==
    [n \in (DOMAIN costs) \cup {namespace} |->
        IF n = namespace
        THEN (IF namespace \in DOMAIN costs
              THEN costs[namespace] + workloadCost + workloadCost
              ELSE workloadCost + workloadCost)
        ELSE costs[n]]

\* aggregatedNamespaceCost[namespace] = currentNamespaceCost + workloadCost,
\* or workloadCost for a namespace not yet in the map.
AddNamespaceCost(costs, namespace, workloadCost) ==
    [n \in (DOMAIN costs) \cup {namespace} |->
        IF n = namespace
        THEN (IF namespace \in DOMAIN costs THEN costs[namespace] + workloadCost
              ELSE workloadCost)
        ELSE costs[n]]

\* *resource.MetaData.Name != "UnusedStorage"
Processed(resource) == resource.Name # S("UnusedStorage")

ClusterTotalFromRecords(output) == SumTotals(SelectSeq(output.resources, Processed))

\* spotinst.Float64Value(aggregatedClusterCost.Result.TotalForDuration.Summary.Total)
ClusterTotal(output) == output.total

AbortAfterError(i) == Len(clusters) + 1

\* continue: the loop over c.clusters goes on with the next cluster.
AfterError(i) == i + 1

\* The control point for position i of c.clusters.
AtCluster(i) == IF i > Len(clusters) THEN "done" ELSE "fetch"

\* Collect is called: a scrape begins. main registers the collector after the
\* first PopulateOnce has returned.
Collect ==
    /\ cpc = "idle"
    /\ retriever = "cache" => populations >= 1
    /\ cIdx' = 1
    /\ cpc' = AtCluster(1)
    /\ UNCHANGED <<rIdx, aggregatedNamespaceCost, emitted, fetched, looked, nsLooked>>
    /\ UNCHANGED <<reducerVars, configVars, scrapeVars, flagVars, keyVars, windowVars, cacheVars, lifeVars>>

\* The records the responses of this scrape have held so far.
RECURSIVE RecordsFetched(_)
RecordsFetched(i) ==
    IF i = 0 THEN 0 ELSE Len(fetched[i].resources) + RecordsFetched(i - 1)

\* One call of GetClusterAggregatedCosts, and collectClusterCosts up to its
\* loop over the resources.  output.AggregatedClusterCosts[0] is indexed
\* unchecked: with no element the index is out of range and Collect panics.
FetchClusterCosts ==
    /\ cpc = "fetch"
    /\ \E output \in FetchOutcomes(MaxRecords - RecordsFetched(Len(fetched))) :
        /\ fetched' = Append(fetched, output)
        /\ looked' = Append(looked, <<>>)
        /\ nsLooked' = Append(nsLooked, <<>>)
        /\ CASE output.outcome = "error" ->
                    /\ cIdx' = AfterError(cIdx)
                    /\ cpc' = AtCluster(cIdx')
                    /\ UNCHANGED <<rIdx, aggregatedNamespaceCost, emitted>>
             [] output.outcome = "empty" ->
                    /\ cpc' = "panic"
                    /\ UNCHANGED <<cIdx, rIdx, aggregatedNamespaceCost, emitted>>
             [] output.outcome = "nil" ->
                    /\ cIdx' = cIdx + 1
                    /\ cpc' = AtCluster(cIdx')
                    /\ UNCHANGED <<rIdx, aggregatedNamespaceCost, emitted>>
             [] output.outcome = "ok" ->
                    /\ emitted' = Emit(emitted,
                                       Sample("cluster_cost", ClusterTotal(output),
                                              clusterLabelValues(clusters[cIdx]),
                                              <<cIdx, 0>>, <<>>, "total"))
                    /\ aggregatedNamespaceCost' = EmptyNamespaceCost
                    /\ rIdx' = 1
                    /\ cpc' = "resources"
                    /\ UNCHANGED cIdx
    /\ UNCHANGED <<reducerVars, configVars, scrapeVars, flagVars, keyVars, windowVars, cacheVars, lifeVars>>

\* One iteration of the loop over the resources: collectWorkloadCosts and the
\* update of aggregatedNamespaceCost.
CollectWorkloadCosts ==
    /\ cpc = "resources"
    /\ rIdx <= Len(fetched[cIdx].resources)
    /\ LET resource == fetched[cIdx].resources[rIdx]
           cluster == clusters[cIdx]
       IN  IF Processed(resource)
           THEN \E answer \in RetrieverAnswers(resource.Type, resource.Namespace,
                                               cluster.ID, resource.Name) :
                   /\ emitted' = emitted (+) WorkloadSamples(<<cIdx, rIdx>>, cluster,
                                                             resource, answer)
                   /\ aggregatedNamespaceCost' =
                          AddNamespaceCost(aggregatedNamespaceCost,
                                           resource.Namespace, resource.Total)
                   /\ looked' = [looked EXCEPT ![cIdx] =
                                    Append(@, [asked |-> TRUE, found |-> answer.found,
                                               labels |-> answer.labels])]
           ELSE /\ looked' = [looked EXCEPT ![cIdx] =
                                 Append(@, [asked |-> FALSE, found |-> FALSE,
                                            labels |-> NoLabels])]
                /\ UNCHANGED <<emitted, aggregatedNamespaceCost>>
    /\ rIdx' = rIdx + 1
    /\ UNCHANGED <<cpc, cIdx, fetched, nsLooked>>
    /\ UNCHANGED <<reducerVars, configVars, scrapeVars, flagVars, keyVars, windowVars, cacheVars, lifeVars>>

\* The loop over the resources is over.
ResourcesDone ==
    /\ cpc = "resources"
    /\ rIdx > Len(fetched[cIdx].resources)
    /\ cpc' = "namespaces"
    /\ UNCHANGED <<cIdx, rIdx, aggregatedNamespaceCost, emitted, fetched, looked, nsLooked>>
    /\ UNCHANGED <<reducerVars, configVars, scrapeVars, flagVars, keyVars, windowVars, cacheVars, lifeVars>>

\* One iteration of the loop over aggregatedNamespaceCost, in the order the
\* map iteration happens to take.
CollectNamespaceCost ==
    /\ cpc = "namespaces"
    /\ \E namespace \in (DOMAIN aggregatedNamespaceCost) \ (DOMAIN nsLooked[cIdx]) :
        \E answer \in RetrieverAnswers(S("Namspace"), namespace,
                                       clusters[cIdx].ID, namespace) :
            LET cluster == clusters[cIdx]
                namespaceLabelValues ==
                    Append(clusterLabelValues(cluster), namespace)
                        \o LabelValues(labelMappings, answer.labels)
                stored == GetLabelFor(S("Namespace"), namespace, cluster.ID, namespace)
            IN  /\ emitted' =
                       IF answer.found
                       THEN Emit(emitted,
                                 Sample("namespace_cost",
                                        aggregatedNamespaceCost[namespace],
                                        namespaceLabelValues, <<cIdx, 0>>,
                                        namespace, "total"))
                       ELSE emitted
                /\ nsLooked' = [nsLooked EXCEPT ![cIdx] =
                                   (namespace :> [found |-> answer.found,
                                                  labels |-> answer.labels,
                                                  stored |-> stored.found]) @@ @]
    /\ UNCHANGED <<cpc, cIdx, rIdx, aggregatedNamespaceCost, fetched, looked>>
    /\ UNCHANGED <<reducerVars, configVars, scrapeVars, flagVars, keyVars, windowVars, cacheVars, lifeVars>>

\* collectClusterCosts returns: the next cluster, or the end of Collect.
ClusterDone ==
    /\ cpc = "namespaces"
    /\ DOMAIN aggregatedNamespaceCost = DOMAIN nsLooked[cIdx]
    /\ cIdx' = cIdx + 1
    /\ cpc' = AtCluster(cIdx')
    /\ UNCHANGED <<rIdx, aggregatedNamespaceCost, emitted, fetched, looked, nsLooked>>
    /\ UNCHANGED <<reducerVars, configVars, scrapeVars, flagVars, keyVars, windowVars, cacheVars, lifeVars>>

NextCollect ==
    \/ Collect
    \/ FetchClusterCosts
    \/ CollectWorkloadCosts
    \/ ResourcesDone
    \/ CollectNamespaceCost
    \/ ClusterDone

\* The collector with any implementation of K8sLabelRetriever behind it.
Init ==
    /\ clusters \in ClusterLists
    /\ labelMappings \in MappingLists
    /\ retriever = "any"
    /\ cpc = "idle"
    /\ cIdx = 0
    /\ rIdx = 0
    /\ aggregatedNamespaceCost = <<>>
    /\ emitted = EmptyBag
    /\ fetched = <<>>
    /\ looked = <<>>
    /\ nsLooked = <<>>
    /\ labelCache = <<>>
    /\ now = 0
    /\ ppc = "idle"
    /\ pIdx = 0
    /\ populations = 0
    /\ populated = {}
    /\ InitLifeIdle
    /\ InitScrapesIdle
    /\ InitKeysIdle
    /\ InitFlagIdle
    /\ InitWindowIdle
    /\ InitNormalizeIdle
    /\ InitReducerIdle

Next == NextCollect

Spec == Init /\ [][Next]_vars

\* The collector with the K8sOceanLabelRetriever main gives it.
InitCache ==
    /\ clusters \in ClusterLists
    /\ labelMappings \in MappingLists
    /\ retriever = "cache"
    /\ cpc = "idle"
    /\ cIdx = 0
    /\ rIdx = 0
    /\ aggregatedNamespaceCost = <<>>
    /\ emitted = EmptyBag
    /\ fetched = <<>>
    /\ looked = <<>>
    /\ nsLooked = <<>>
    /\ labelCache = <<>>
    /\ now = 0
    /\ ppc = "idle"
    /\ pIdx = 0
    /\ populations = 0
    /\ populated = {}
    /\ InitLifeIdle
    /\ InitScrapesIdle
    /\ InitKeysIdle
    /\ InitFlagIdle
    /\ InitWindowIdle
    /\ InitNormalizeIdle
    /\ InitReducerIdle

NextCache ==
    \/ NextCollect
    \/ PopulateOnceBegin
    \/ PopulateCluster
    \/ PopulateOnceReturn
    \/ Tick

SpecCache == InitCache /\ [][NextCache]_vars

(***************************************************************************)
(* OceanAWSClusterCostsCollector, the revision with six constructor        *)
(* arguments (part_001, lines 1 to 189), which the test of the collector   *)
(* constructs.  Collect, the end of the loop over the resources and the    *)
(* return of collectClusterCosts are as above.                             *)
(***************************************************************************)
\* workloadComputeCost := spotinst.Float64Value(workload.Storage.Total)
workloadComputeCostRev1(workload) == workload.Storage

workloadNetworkCostRev1(workload) ==
    workload.Total - workload.Storage - workloadComputeCostRev1(workload)

\* The samples this collectWorkloadCosts sends for one record: the total and
\* the network cost.
WorkloadSamplesRev1(from, cluster, workload, answer) ==
    IF ~answer.found THEN EmptyBag
    ELSE LET labelValues == clusterLabelValues(cluster)
                                \o <<workload.Namespace, workload.Name, workload.Type>>
                                \o LabelValues(labelMappings, answer.labels)
             w == Sample("workload_cost", workload.Total, labelValues,
                         from, workload.Namespace, "total")
             n == Sample("workload_resource_cost", workloadNetworkCostRev1(workload),
                         Append(labelValues, S("network")),
                         from, workload.Namespace, "network")
         IN  Emit(Emit(EmptyBag, w), n)

\* One call of GetClusterAggregatedCosts, and collectClusterCosts up to its
\* loop over the resources.  TotalForDuration is dereferenced unchecked: a
\* nil one panics.
FetchClusterCostsRev1 ==
    /\ cpc = "fetch"
    /\ \E output \in FetchOutcomes(MaxRecords - RecordsFetched(Len(fetched))) :
        /\ fetched' = Append(fetched, output)
        /\ looked' = Append(looked, <<>>)
        /\ nsLooked' = Append(nsLooked, <<>>)
        /\ CASE output.outcome = "error" ->
                    /\ cIdx' = AfterError(cIdx)
                    /\ cpc' = AtCluster(cIdx')
                    /\ UNCHANGED <<rIdx, aggregatedNamespaceCost, emitted>>
             [] output.outcome = "empty" ->
                    /\ cpc' = "panic"
                    /\ UNCHANGED <<cIdx, rIdx, aggregatedNamespaceCost, emitted>>
             [] output.outcome = "nil" ->
                    /\ cpc' = "panic"
                    /\ UNCHANGED <<cIdx, rIdx, aggregatedNamespaceCost, emitted>>
             [] output.outcome = "ok" ->
                    /\ emitted' = Emit(emitted,
                                       Sample("cluster_cost", output.total,
                                              clusterLabelValues(clusters[cIdx]),
                                              <<cIdx, 0>>, <<>>, "total"))
                    /\ aggregatedNamespaceCost' = EmptyNamespaceCost
                    /\ rIdx' = 1
                    /\ cpc' = "resources"
                    /\ UNCHANGED cIdx
    /\ UNCHANGED <<reducerVars, configVars, scrapeVars, flagVars, keyVars, windowVars, cacheVars, lifeVars>>

\* One iteration of the loop over the resources; no record is left out.
CollectWorkloadCostsRev1 ==
    /\ cpc = "resources"
    /\ rIdx <= Len(fetched[cIdx].resources)
    /\ LET resource == fetched[cIdx].resources[rIdx]
           cluster == clusters[cIdx]
       IN  \E answer \in RetrieverAnswers(resource.Type, resource.Namespace,
                                          cluster.ID, resource.Name) :
               /\ emitted' = emitted (+) WorkloadSamplesRev1(<<cIdx, rIdx>>, cluster,
                                                             resource, answer)
               /\ aggregatedNamespaceCost' =
                      AddNamespaceCost(aggregatedNamespaceCost,
                                       resource.Namespace, resource.Total)
               /\ looked' = [looked EXCEPT ![cIdx] =
                                Append(@, [asked |-> TRUE, found |-> answer.found,
                                           labels |-> answer.labels])]
    /\ rIdx' = rIdx + 1
    /\ UNCHANGED <<cpc, cIdx, fetched, nsLooked>>
    /\ UNCHANGED <<reducerVars, configVars, scrapeVars, flagVars, keyVars, windowVars, cacheVars, lifeVars>>

\* One iteration of the loop over aggregatedNamespaceCost.  The label values
\* of a namespace whose labels are found lack the namespace: they are one
\* fewer than the names of the descriptor, and MustNewConstMetric panics.
CollectNamespaceCostRev1 ==
    /\ cpc = "namespaces"
    /\ \E namespace \in (DOMAIN aggregatedNamespaceCost) \ (DOMAIN nsLooked[cIdx]) :
        \E answer \in RetrieverAnswers(S("Namspace"), namespace,
                                       clusters[cIdx].ID, namespace) :
            /\ cpc' = IF answer.found THEN "panic" ELSE cpc
            /\ nsLooked' = [nsLooked EXCEPT ![cIdx] =
                               (namespace :> [found |-> answer.found,
                                              labels |-> answer.labels,
                                              stored |-> FALSE]) @@ @]
    /\ UNCHANGED <<cIdx, rIdx, aggregatedNamespaceCost, emitted, fetched, looked>>
    /\ UNCHANGED <<reducerVars, configVars, scrapeVars, flagVars, keyVars, windowVars, cacheVars, lifeVars>>

NextRev1 ==
    \/ Collect
    \/ FetchClusterCostsRev1
    \/ CollectWorkloadCostsRev1
    \/ ResourcesDone
    \/ CollectNamespaceCostRev1
    \/ ClusterDone

SpecRev1 == Init /\ [][NextRev1]_vars

(***************************************************************************)
(* The retriever as main runs it: one PopulateOnce, then PopulationLoop in *)
(* a goroutine of its own, then the collector is registered and scrapes    *)
(* read the cache.  Every labelCache.Set is one step, and a scrape may call *)
(* GetLabelFor in every state once the collector is registered.            *)
(***************************************************************************)
MaxLoopCalls == 1    \* PopulateOnce calls of PopulationLoop in one run

mainProgramLoopFirst == <<"go PopulationLoop", "PopulateOnce", "MustRegister">>

mainProgramRegisterFirst == <<"MustRegister", "PopulateOnce", "go PopulationLoop">>

\* The statements of main that concern the retriever, in their order.
mainProgram == <<"PopulateOnce", "go PopulationLoop", "MustRegister">>

\* K8sOceanLabelRetriever.lookupInterval, in seconds: the constructor leaves
\* the field out and no statement assigns it.
lookupInterval == 0

AtMain(statement) == mpc <= Len(mainProgram) /\ mainProgram[mpc] = statement

\* The collector is registered: scrapes may call GetLabelFor.
Registered == mpc > Len(mainProgram)

\* main has executed registry.MustRegister for the cost collector; the
\* handler of /metrics, which main installs afterwards, calls Collect of the
\* registered collectors only.
CollectorRegistered ==
    \E k \in 1..Len(mainProgram) : k < mpc /\ mainProgram[k] = "MustRegister"

\* The labelCache.Set calls of iterateOverResources, from the i-th resource on.
RECURSIVE ResourceSets(_, _, _, _, _)
ResourceSets(resourceType, namespace, cluster, deployables, i) ==
    IF i > Len(deployables) THEN <<>>
    ELSE <<[key |-> cacheKey(resourceType, namespace, cluster, deployables[i]),
            labels |-> deployables[i].Labels]>>
         \o ResourceSets(resourceType, namespace, cluster, deployables, i + 1)

\* The labelCache.Set calls of the body of the loop over the namespaces.
NamespaceSets(cluster, namespace) ==
    ResourceSets(S("Deployment"), namespace.Namespace, cluster, namespace.Deployments, 1)
    \o ResourceSets(S("Job"), namespace.Namespace, cluster, namespace.Jobs, 1)
    \o ResourceSets(S("StatefulSet"), namespace.Namespace, cluster,
                    namespace.StatefulSets, 1)
    \o ResourceSets(S("DaemonSet"), namespace.Namespace, cluster, namespace.DaemonSets, 1)
    \o <<[key |-> cacheKeyViaIdentifier(S("Namespace"), namespace.Namespace, cluster,
                                        namespace.Namespace),
          labels |-> namespace.Labels]>>

RECURSIVE ClusterSets(_, _, _)
ClusterSets(cluster, namespaces, i) ==
    IF i > Len(namespaces) THEN <<>>
    ELSE NamespaceSets(cluster, namespaces[i]) \o ClusterSets(cluster, namespaces, i + 1)

\* PopulateOnce is entered by the caller.
EnterPopulateOnce(c) ==
    /\ calls' = [calls EXCEPT ![c] = [pc |-> "fetch", idx |-> 1, pending |-> <<>>]]
    /\ refresh' = [by |-> c, before |-> labelCache, outs |-> <<>>]

\* labelRetriever.PopulateOnce() in main: main goes on when it has returned.
MainPopulateOnce ==
    /\ retriever = "cache"
    /\ AtMain("PopulateOnce")
    /\ calls["main"].pc = "idle"
    /\ EnterPopulateOnce("main")
    /\ UNCHANGED <<mpc, lpc, sleepFrom, waited, written>>
    /\ UNCHANGED <<reducerVars, configVars, scrapeVars, flagVars, keyVars, windowVars, collectVars, cacheVars>>

\* go labelRetriever.PopulationLoop(): the loop begins with time.Sleep.
MainGoPopulationLoop ==
    /\ retriever = "cache"
    /\ AtMain("go PopulationLoop")
    /\ mpc' = mpc + 1
    /\ lpc' = "sleep"
    /\ sleepFrom' = now
    /\ UNCHANGED <<calls, refresh, waited, written>>
    /\ UNCHANGED <<reducerVars, configVars, scrapeVars, flagVars, keyVars, windowVars, collectVars, cacheVars>>

\* registry.MustRegister(collectors.NewOceanAWSClusterCostsCollector(...))
MainMustRegister ==
    /\ retriever = "cache"
    /\ AtMain("MustRegister")
    /\ mpc' = mpc + 1
    /\ UNCHANGED <<lpc, sleepFrom, calls, refresh, waited, written>>
    /\ UNCHANGED <<reducerVars, configVars, scrapeVars, flagVars, keyVars, windowVars, collectVars, cacheVars>>

\* time.Sleep(time.Duration(c.lookupInterval) * time.Second) returns, not
\* before that duration has passed, and the loop calls PopulateOnce.
LoopPopulateOnce ==
    /\ lpc = "sleep"
    /\ 60 * (now - sleepFrom) >= lookupInterval
    /\ Len(waited) < MaxLoopCalls
    /\ lpc' = "populate"
    /\ waited' = Append(waited, lookupInterval)
    /\ EnterPopulateOnce("loop")
    /\ UNCHANGED <<mpc, sleepFrom, written>>
    /\ UNCHANGED <<reducerVars, configVars, scrapeVars, flagVars, keyVars, windowVars, collectVars, cacheVars>>

ReturnAfterPopulateError(i) == Len(clusters) + 1

\* continue: PopulateOnce goes on with the next cluster.
AfterPopulateError(i) == i + 1

\* c.client.GetClusterCosts for the cluster at hand.
PopulateFetch(c) ==
    /\ calls[c].pc = "fetch"
    /\ calls[c].idx <= Len(clusters)
    /\ \E out \in McsOutcomes :
        /\ refresh' = [refresh EXCEPT !.outs = Append(@, out)]
        /\ calls' = [calls EXCEPT ![c] =
                        IF out.outcome = "error"
                        THEN [@ EXCEPT !.idx = AfterPopulateError(@)]
                        ELSE [@ EXCEPT !.pc = "store",
                                       !.pending = ClusterSets(clusters[calls[c].idx].ID,
                                                               out.namespaces, 1)]]
    /\ UNCHANGED <<mpc, lpc, sleepFrom, waited, written>>
    /\ UNCHANGED <<reducerVars, configVars, scrapeVars, flagVars, keyVars, windowVars, collectVars, cacheVars>>

\* One c.labelCache.Set(cacheKey, labels, cache.DefaultExpiration).
PopulateSet(c) ==
    /\ calls[c].pc = "store"
    /\ calls[c].pending # <<>>
    /\ LET set == Head(calls[c].pending)
       IN  /\ labelCache' = CacheSet(labelCache, set.key, set.labels, now)
           /\ written' = (set.key :> [at |-> now, labels |-> set.labels]) @@ written
    /\ calls' = [calls EXCEPT ![c].pending = Tail(@)]
    /\ UNCHANGED <<now, ppc, pIdx, populations, populated>>
    /\ UNCHANGED <<mpc, lpc, sleepFrom, refresh, waited>>
    /\ UNCHANGED <<reducerVars, configVars, scrapeVars, flagVars, keyVars, windowVars, collectVars>>

\* The output of the cluster at hand is stored: the next cluster.
PopulateStored(c) ==
    /\ calls[c].pc = "store"
    /\ calls[c].pending = <<>>
    /\ calls' = [calls EXCEPT ![c] = [@ EXCEPT !.pc = "fetch", !.idx = @ + 1]]
    /\ UNCHANGED <<mpc, lpc, sleepFrom, refresh, waited, written>>
    /\ UNCHANGED <<reducerVars, configVars, scrapeVars, flagVars, keyVars, windowVars, collectVars, cacheVars>>

\* PopulateOnce returns to its caller: main goes on with its next statement,
\* the loop sets isInitialized and sleeps again.
PopulateReturn(c) ==
    /\ calls[c].pc = "fetch"
    /\ calls[c].idx > Len(clusters)
    /\ calls' = [calls EXCEPT ![c] = IdleCall]
    /\ populations' = populations + 1
    /\ IF c = "main"
       THEN /\ mpc' = mpc + 1
            /\ UNCHANGED <<lpc, sleepFrom>>
       ELSE /\ lpc' = "sleep"
            /\ sleepFrom' = now
            /\ UNCHANGED mpc
    /\ UNCHANGED <<labelCache, now, ppc, pIdx, populated>>
    /\ UNCHANGED <<refresh, waited, written>>
    /\ UNCHANGED <<reducerVars, configVars, scrapeVars, flagVars, keyVars, windowVars, collectVars>>

\* What a scrape may ask the retriever for.
Probes ==
    { [resourceType |-> t, namespace |-> S("foo-ns"), cluster |-> c.ID,
       resourceIdentifier |-> n] :
        t \in {S("Deployment"), S("Job")}, c \in {Foo, Bar},
        n \in {S("web"), S("api"), S("batch"), S("")} }
    \cup
    { [resourceType |-> t, namespace |-> S("foo-ns"), cluster |-> c.ID,
       resourceIdentifier |-> S("foo-ns")] :
        t \in {S("Namespace"), S("Namspace")}, c \in {Foo, Bar} }

ProbeKey(p) ==
    cacheKeyViaIdentifier(p.resourceType, p.namespace, p.cluster, p.resourceIdentifier)

InitRetriever == InitCache

NextRetriever ==
    \/ MainPopulateOnce
    \/ MainGoPopulationLoop
    \/ MainMustRegister
    \/ LoopPopulateOnce
    \/ \E c \in Callers :
          \/ PopulateFetch(c)
          \/ PopulateSet(c)
          \/ PopulateStored(c)
          \/ PopulateReturn(c)
    \/ Tick

SpecRetriever == InitRetriever /\ [][NextRetriever]_vars

(***************************************************************************)
(* getLabelsForResource of the collector that holds a kubeClient and its   *)
(* own labelCache (pkg/collectors/ocean_aws_cluster_costs.go).  The sample *)
(* loops call it once per namespace and once per workload record.  looked  *)
(* holds the last call: its key, the cache before it, whether the          *)
(* Kubernetes API was called, and what it returned.                        *)
(***************************************************************************)
\* The case labels of the switch over resourceType.
KubeKinds == {S("Namespace"), S("Deployment"), S("StatefulSet"), S("Job"),
              S("DaemonSet")}

\* The arguments the sample loops pass: (namespace, namespace, "Namespace")
\* for a namespace, (name, namespace, type) for a workload record.
KubeLookups ==
    { [resourceName |-> ns, namespaceName |-> ns, resourceType |-> S("Namespace")] :
          ns \in {S("foo-ns"), S("other-ns")} }
    \cup { [resourceName |-> r.Name, namespaceName |-> r.Namespace,
            resourceType |-> r.Type] :
               r \in { CostRecord("Deployment", "web", "foo-ns", 10, 1, 3),
                       CostRecord("Job", "batch", "foo-ns", 7, 2, 2),
                       CostRecord("Pod", "web-0", "foo-ns", 1, 0, 1) } }

\* fmt.Sprintf("%s:%s:%s", resourceType, namespaceName, resourceName)
kubeCacheKey(resourceName, namespaceName, resourceType) ==
    resourceType \o <<":">> \o namespaceName \o <<":">> \o resourceName

\* What the Get of the Kubernetes API may return: an error, or the object.
KubeOutcomes ==
    { [err |-> TRUE, labels |-> NoLabels] }
    \cup { [err |-> FALSE, labels |-> l] : l \in {WebLabels, TeamLabels} }

\* The call, for a resourceType the switch has a case for.
getLabelsForResource(q) ==
    LET key == kubeCacheKey(q.resourceName, q.namespaceName, q.resourceType)
        got == CacheGet(labelCache, key, now)
    IN  /\ cpc = "idle"
        /\ retriever = "kube"
        /\ q.resourceType \in KubeKinds
        /\ IF got.found
           THEN /\ looked' = <<[key |-> key, before |-> labelCache,
                                upstream |-> FALSE, answer |-> got]>>
                /\ UNCHANGED labelCache
           ELSE \E out \in KubeOutcomes :
                  /\ looked' = <<[key |-> key, before |-> labelCache,
                                  upstream |-> TRUE,
                                  answer |-> IF out.err THEN Miss
                                             ELSE Hit(out.labels)]>>
                  /\ labelCache' = IF out.err THEN labelCache
                                   ELSE CacheSet(labelCache, key, out.labels, now)
        /\ UNCHANGED <<cpc, cIdx, rIdx, aggregatedNamespaceCost, emitted, fetched,
                       nsLooked>>
        /\ UNCHANGED <<now, ppc, pIdx, populations, populated>>
        /\ UNCHANGED <<reducerVars, configVars, scrapeVars, flagVars, keyVars, windowVars, lifeVars>>

\* The call, for a resourceType the switch has no case for: labelProvider and
\* err are both nil, and labelProvider.GetLabels() panics.
getLabelsForResourceNoCase(q) ==
    LET key == kubeCacheKey(q.resourceName, q.namespaceName, q.resourceType)
    IN  /\ cpc = "idle"
        /\ retriever = "kube"
        /\ q.resourceType \notin KubeKinds
        /\ ~CacheGet(labelCache, key, now).found
        /\ cpc' = "panic"
        /\ looked' = <<[key |-> key, before |-> labelCache, upstream |-> FALSE,
                        answer |-> Miss]>>
        /\ UNCHANGED <<cIdx, rIdx, aggregatedNamespaceCost, emitted, fetched,
                       nsLooked>>
        /\ UNCHANGED cacheVars
        /\ UNCHANGED <<reducerVars, configVars, scrapeVars, flagVars, keyVars, windowVars, lifeVars>>

\* Time passes between two calls.
TickKube ==
    /\ retriever = "kube"
    /\ cpc = "idle"
    /\ now + TickMinutes <= MaxNow
    /\ now' = now + TickMinutes
    /\ UNCHANGED <<labelCache, ppc, pIdx, populations, populated>>
    /\ UNCHANGED <<reducerVars, configVars, scrapeVars, flagVars, keyVars, windowVars, collectVars, lifeVars>>

InitKube ==
    /\ clusters \in ClusterLists
    /\ labelMappings \in MappingLists
    /\ retriever = "kube"
    /\ cpc = "idle"
    /\ cIdx = 0
    /\ rIdx = 0
    /\ aggregatedNamespaceCost = <<>>
    /\ emitted = EmptyBag
    /\ fetched = <<>>
    /\ looked = <<>>
    /\ nsLooked = <<>>
    /\ labelCache = <<>>
    /\ now = 0
    /\ ppc = "idle"
    /\ pIdx = 0
    /\ populations = 0
    /\ populated = {}
    /\ InitLifeIdle
    /\ InitScrapesIdle
    /\ InitKeysIdle
    /\ InitFlagIdle
    /\ InitWindowIdle
    /\ InitNormalizeIdle
    /\ InitReducerIdle

NextKube ==
    \/ \E q \in KubeLookups : getLabelsForResource(q)
    \/ \E q \in KubeLookups : getLabelsForResourceNoCase(q)
    \/ TickKube

SpecKube == InitKube /\ [][NextKube]_vars

(***************************************************************************)
(* The billing window: Collect and PopulateOnce both take time.Now(),      *)
(* compute now.AddDate(0, 0, -now.Day()+1) and                             *)
(* now.AddDate(0, 1, -now.Day()+1), and format both with "2006-01-02".     *)
(* AddDate adds to the year, month and day of the date and hands the sums  *)
(* to time.Date, which normalises the month into the year first and then   *)
(* counts the day from the first of that month.                            *)
(***************************************************************************)
MaxYear == 2024      \* the last of the two years a current date is drawn from

isLeap(year) == year % 4 = 0 /\ (year % 100 # 0 \/ year % 400 = 0)

DaysIn(year, month) ==
    IF month = 2 THEN (IF isLeap(year) THEN 29 ELSE 28)
    ELSE IF month \in {4, 6, 9, 11} THEN 30 ELSE 31

\* The dates time.Now() may fall on.
Dates ==
    { [year |-> y, month |-> m, day |-> d] :
          y \in (MaxYear - 1)..MaxYear, m \in 1..12, d \in 1..31 }

ValidDates == {t \in Dates : t.day <= DaysIn(t.year, t.month)}

\* time.Date, the day: a day outside the month moves into the months
\* before or after it.
RECURSIVE NormDay(_, _, _)
NormDay(year, month, day) ==
    IF day < 1
    THEN LET py == IF month = 1 THEN year - 1 ELSE year
             pm == IF month = 1 THEN 12 ELSE month - 1
         IN  NormDay(py, pm, day + DaysIn(py, pm))
    ELSE IF day > DaysIn(year, month)
    THEN LET ny == IF month = 12 THEN year + 1 ELSE year
             nm == IF month = 12 THEN 1 ELSE month + 1
         IN  NormDay(ny, nm, day - DaysIn(year, month))
    ELSE [year |-> year, month |-> month, day |-> day]

\* time.Date(year, month, day, ...): the month is normalised into the year,
\* then the day is counted from the first of that month.
Date(year, month, day) ==
    LET m0 == month - 1
        y == year + (m0 \div 12)
        m == (m0 % 12) + 1
    IN  NormDay(y, m, day)

\* The month is added and the day cut to the length of the month reached,
\* before the days are added.
AddDateClamped(t, years, months, days) ==
    LET first == Date(t.year + years, t.month + months, 1)
        last == DaysIn(first.year, first.month)
        cut == IF t.day > last THEN last ELSE t.day
    IN  Date(first.year, first.month, cut + days)

\* t.AddDate(years, months, days)
AddDate(t, years, months, days) ==
    Date(t.year + years, t.month + months, t.day + days)

DigitChars == <<"0", "1", "2", "3", "4", "5", "6", "7", "8", "9">>

\* The decimal digits of n, padded with zeros to the width.
RECURSIVE Pad(_, _)
Pad(n, width) ==
    IF width = 0 THEN <<>>
    ELSE Pad(n \div 10, width - 1) \o <<DigitChars[(n % 10) + 1]>>

\* t.Format("2006-01-02")
Format(t) ==
    Pad(t.year, 4) \o <<"-">> \o Pad(t.month, 2) \o <<"-">> \o Pad(t.day, 2)

\* The fromDate and toDate both functions compute from now.
BillingWindow(t) ==
    LET firstDayOfCurrentMonth == AddDate(t, 0, 0, 1 - t.day)
        firstDayOfNextMonth == AddDate(t, 0, 1, 1 - t.day)
    IN  [fromDate |-> Format(firstDayOfCurrentMonth),
         toDate |-> Format(firstDayOfNextMonth)]

\* Collect, its first statements.
CollectWindow ==
    /\ window["Collect"] = <<>>
    /\ window' = [window EXCEPT !["Collect"] = BillingWindow(today)]
    /\ UNCHANGED today
    /\ UNCHANGED <<reducerVars, configVars, scrapeVars, flagVars, keyVars, collectVars, cacheVars, lifeVars>>

\* PopulateOnce, its first statements.
PopulateOnceWindow ==
    /\ window["PopulateOnce"] = <<>>
    /\ window' = [window EXCEPT !["PopulateOnce"] = BillingWindow(today)]
    /\ UNCHANGED today
    /\ UNCHANGED <<reducerVars, configVars, scrapeVars, flagVars, keyVars, collectVars, cacheVars, lifeVars>>

InitWindow ==
    /\ today \in ValidDates
    /\ window = [c \in WindowCallers |-> <<>>]
    /\ InitNormalizeIdle
    /\ InitReducerIdle
    /\ InitCollectorFieldsIdle
    /\ InitLifeIdle
    /\ InitScrapesIdle
    /\ InitKeysIdle
    /\ InitFlagIdle

NextWindow == CollectWindow \/ PopulateOnceWindow

SpecWindow == InitWindow /\ [][NextWindow]_vars

(***************************************************************************)
(* labels.Mappings: ParseMappings and Set as the --resource-labels flag    *)
(* calls them, once per occurrence of the flag, and LabelValues.  Strings  *)
(* are sequences of characters.                                            *)
(***************************************************************************)
MaxInput == 4        \* the characters of one flag value

FlagChars == {"a", "=", ","}

\* The values the flag may be given.
FlagValues == SeqsUpTo(FlagChars, MaxInput)

\* The position of the first sep in s at or after position i, 0 if none.
RECURSIVE IndexFrom(_, _, _)
IndexFrom(s, sep, i) ==
    IF i > Len(s) THEN 0
    ELSE IF s[i] = sep THEN i
    ELSE IndexFrom(s, sep, i + 1)

\* strings.Split(s, sep): the pieces between the separators, at least one.
RECURSIVE Split(_, _)
Split(s, sep) ==
    LET k == IndexFrom(s, sep, 1)
    IN  IF k = 0 THEN <<s>>
        ELSE <<SubSeq(s, 1, k - 1)>> \o Split(SubSeq(s, k + 1, Len(s)), sep)

\* strings.SplitN(s, sep, 2): cut at the first separator only.
SplitN2(s, sep) ==
    LET k == IndexFrom(s, sep, 1)
    IN  IF k = 0 THEN <<s>>
        ELSE <<SubSeq(s, 1, k - 1), SubSeq(s, k + 1, Len(s))>>

\* The body of the loop of ParseMappings for one pair.
ParsePair(pair) ==
    LET labels == SplitN2(pair, "=")
        resourceLabel == labels[1]
        prometheusLabel == IF Len(labels) = 2 THEN labels[2] ELSE resourceLabel
    IN  [bad |-> resourceLabel = <<>> \/ prometheusLabel = <<>>,
         mapping |-> Mapping(resourceLabel, prometheusLabel)]

ParseMappingsResourceOnly(input) ==
    LET pairs == Split(input, ",")
        parsed == [k \in DOMAIN pairs |-> ParsePair(pairs[k])]
    IN  IF \E k \in DOMAIN parsed : parsed[k].mapping.resourceLabelName = <<>>
        THEN [err |-> TRUE, mappings |-> <<>>]
        ELSE [err |-> FALSE, mappings |-> [k \in DOMAIN parsed |-> parsed[k].mapping]]

\* ParseMappings: (nil, errEmptyLabelName) at the first pair with an empty
\* label name, the mappings of all pairs otherwise.
ParseMappings(input) ==
    LET pairs == Split(input, ",")
        parsed == [k \in DOMAIN pairs |-> ParsePair(pairs[k])]
    IN  IF \E k \in DOMAIN parsed : parsed[k].bad
        THEN [err |-> TRUE, mappings |-> <<>>]
        ELSE [err |-> FALSE, mappings |-> [k \in DOMAIN parsed |-> parsed[k].mapping]]

\* The mappings earlier occurrences of the flag have left: none, those of
\* "a", and those of "a==".
ExistingMappings ==
    { <<>>,
      ParseMappings(<<"a">>).mappings,
      ParseMappings(<<"a", "=", "=">>).mappings }

\* Mappings.Set(value), for one more occurrence of the flag.
MappingsSet ==
    /\ flagSets = 0
    /\ \E value \in FlagValues :
          LET got == ParseMappings(value)
          IN  /\ flagValue' = value
              /\ flagBefore' = flagMappings
              /\ flagErr' = got.err
              /\ flagMappings' = IF got.err THEN flagMappings
                                 ELSE flagMappings \o got.mappings
    /\ flagSets' = flagSets + 1
    /\ UNCHANGED lv
    /\ UNCHANGED <<reducerVars, configVars, scrapeVars, keyVars, collectVars, cacheVars, lifeVars, windowVars>>

\* The label maps LabelValues is given: a nil map, and maps with one and with
\* two keys.
FlagLabelMaps ==
    { <<>>,
      (<<"a">> :> S("core")),
      (<<"a">> :> S("edge")) @@ (<<"a", "a">> :> S("web")) }

\* Mappings.LabelValues(labels), on the mappings the flags have given.
MappingsLabelValues ==
    /\ \E labels \in FlagLabelMaps :
          lv' = [m |-> flagMappings, labels |-> labels,
                 values |-> LabelValues(flagMappings, labels)]
    /\ UNCHANGED <<flagMappings, flagValue, flagBefore, flagErr, flagSets>>
    /\ UNCHANGED <<reducerVars, configVars, scrapeVars, keyVars, collectVars, cacheVars, lifeVars, windowVars>>

InitMappings ==
    /\ InitScrapesIdle
    /\ InitKeysIdle
    /\ flagMappings \in ExistingMappings
    /\ flagValue = <<>>
    /\ flagBefore = <<>>
    /\ flagErr = FALSE
    /\ flagSets = 0
    /\ lv = <<>>
    /\ InitNormalizeIdle
    /\ InitReducerIdle
    /\ InitCollectorFieldsIdle
    /\ today = [year |-> 2024, month |-> 3, day |-> 15]
    /\ window = [c \in WindowCallers |-> <<>>]
    /\ mpc = 1
    /\ lpc = "none"
    /\ sleepFrom = 0
    /\ calls = [c \in Callers |-> IdleCall]
    /\ refresh = [by |-> "none", before |-> <<>>, outs |-> <<>>]
    /\ waited = <<>>
    /\ written = <<>>

NextMappings == MappingsSet \/ MappingsLabelValues

SpecMappings == InitMappings /\ [][NextMappings]_vars

(***************************************************************************)
(* Two scrapes of /metrics at once.  The handler serves each request in    *)
(* its own goroutine, and each calls Collect of the one registered         *)
(* collector with its own channel.  clusterID, output, the map             *)
(* aggregatedNamespaceCost and the label values are local variables of     *)
(* Collect and collectClusterCosts (part_001, lines 284 to 359): each      *)
(* scrape has its own.  passes[k] holds them for scrape k, with the        *)
(* responses scrape k got and the namespace samples it sent.  The          *)
(* workload samples of a record are those of WorkloadSamples above and are *)
(* not recorded here.                                                      *)
(***************************************************************************)
Scrapes == {"first", "second"}

IdlePass ==
    [pc |-> "idle", cIdx |-> 0, rIdx |-> 0, costs |-> <<>>, outputs |-> <<>>,
     asked |-> {}, sent |-> {}]

\* The responses GetClusterAggregatedCosts gives a scrape.
ScrapeResponses ==
    { [outcome |-> "error", total |-> 0, resources |-> <<>>],
      [outcome |-> "ok", total |-> 200,
       resources |-> <<CostRecord("Deployment", "web", "foo-ns", 10, 1, 3)>>],
      [outcome |-> "ok", total |-> 200,
       resources |-> <<CostRecord("Job", "batch", "foo-ns", 7, 2, 2),
                       CostRecord("Deployment", "web", "other-ns", 5, 0, 4)>>] }

\* Collect is called for scrape k.
ScrapeCollect(k) ==
    /\ passes[k].pc = "idle"
    /\ passes' = [passes EXCEPT ![k] = [@ EXCEPT !.cIdx = 1, !.pc = AtCluster(1)]]
    /\ UNCHANGED <<reducerVars, configVars, collectVars, cacheVars, lifeVars,
                   windowVars, flagVars, keyVars>>

\* GetClusterAggregatedCosts for the cluster at hand, and collectClusterCosts
\* up to its loop over the resources.
ScrapeFetch(k) ==
    /\ passes[k].pc = "fetch"
    /\ \E output \in ScrapeResponses :
          passes' = [passes EXCEPT ![k] =
              IF output.outcome = "error"
              THEN [@ EXCEPT !.outputs = Append(@, output),
                             !.cIdx = AfterError(@),
                             !.pc = AtCluster(AfterError(passes[k].cIdx))]
              ELSE [@ EXCEPT !.outputs = Append(@, output),
                             !.costs = EmptyNamespaceCost,
                             !.asked = {},
                             !.rIdx = 1,
                             !.pc = "resources"]]
    /\ UNCHANGED <<reducerVars, configVars, collectVars, cacheVars, lifeVars,
                   windowVars, flagVars, keyVars>>

\* One iteration of the loop over the resources.
ScrapeWorkload(k) ==
    /\ passes[k].pc = "resources"
    /\ passes[k].rIdx <= Len(passes[k].outputs[passes[k].cIdx].resources)
    /\ LET resource == passes[k].outputs[passes[k].cIdx].resources[passes[k].rIdx]
       IN  passes' = [passes EXCEPT ![k] =
               [@ EXCEPT !.rIdx = @ + 1,
                         !.costs = IF Processed(resource)
                                   THEN AddNamespaceCost(@, resource.Namespace,
                                                         resource.Total)
                                   ELSE @]]
    /\ UNCHANGED <<reducerVars, configVars, collectVars, cacheVars, lifeVars,
                   windowVars, flagVars, keyVars>>

\* The loop over the resources ends.
ScrapeResourcesDone(k) ==
    /\ passes[k].pc = "resources"
    /\ passes[k].rIdx > Len(passes[k].outputs[passes[k].cIdx].resources)
    /\ passes' = [passes EXCEPT ![k].pc = "namespaces"]
    /\ UNCHANGED <<reducerVars, configVars, collectVars, cacheVars, lifeVars,
                   windowVars, flagVars, keyVars>>

\* One iteration of the loop over aggregatedNamespaceCost, in the order the
\* map gives: the namespace sample is sent when GetLabelFor finds labels.
ScrapeNamespace(k) ==
    /\ passes[k].pc = "namespaces"
    /\ \E namespace \in (DOMAIN passes[k].costs) \ passes[k].asked :
        \E found \in BOOLEAN :
          passes' = [passes EXCEPT ![k] =
              [@ EXCEPT !.asked = @ \cup {namespace},
                        !.sent = IF found
                                 THEN @ \cup {[cluster |-> passes[k].cIdx,
                                               namespace |-> namespace,
                                               value |-> passes[k].costs[namespace]]}
                                 ELSE @]]
    /\ UNCHANGED <<reducerVars, configVars, collectVars, cacheVars, lifeVars,
                   windowVars, flagVars, keyVars>>

\* collectClusterCosts returns: the next cluster, or the end of Collect.
ScrapeClusterDone(k) ==
    /\ passes[k].pc = "namespaces"
    /\ passes[k].asked = DOMAIN passes[k].costs
    /\ passes' = [passes EXCEPT ![k] =
                     [@ EXCEPT !.cIdx = @ + 1, !.pc = AtCluster(passes[k].cIdx + 1)]]
    /\ UNCHANGED <<reducerVars, configVars, collectVars, cacheVars, lifeVars,
                   windowVars, flagVars, keyVars>>

InitScrapes ==
    /\ passes = [k \in Scrapes |-> IdlePass]
    /\ InitKeysIdle
    /\ clusters \in {<<Foo>>, <<Foo, Bar>>}
    /\ labelMappings = <<>>
    /\ retriever = "any"
    /\ cpc = "idle"
    /\ cIdx = 0
    /\ rIdx = 0
    /\ aggregatedNamespaceCost = <<>>
    /\ emitted = EmptyBag
    /\ fetched = <<>>
    /\ looked = <<>>
    /\ nsLooked = <<>>
    /\ labelCache = <<>>
    /\ now = 0
    /\ ppc = "idle"
    /\ pIdx = 0
    /\ populations = 0
    /\ populated = {}
    /\ mpc = 1
    /\ lpc = "none"
    /\ sleepFrom = 0
    /\ calls = [c \in Callers |-> IdleCall]
    /\ refresh = [by |-> "none", before |-> <<>>, outs |-> <<>>]
    /\ waited = <<>>
    /\ written = <<>>
    /\ InitWindowIdle
    /\ InitFlagIdle
    /\ InitNormalizeIdle
    /\ InitReducerIdle

NextScrapes ==
    \E k \in Scrapes :
        \/ ScrapeCollect(k)
        \/ ScrapeFetch(k)
        \/ ScrapeWorkload(k)
        \/ ScrapeResourcesDone(k)
        \/ ScrapeNamespace(k)
        \/ ScrapeClusterDone(k)

SpecScrapes == InitScrapes /\ [][NextScrapes]_vars

(***************************************************************************)
(* What a collection pass is expected to send, stated from the histories.  *)
(***************************************************************************)
\* The samples sent for record j of cluster i (j = 0: the samples of the
\* cluster and of its namespaces).
SamplesFrom(i, j) ==
    [s \in {x \in DOMAIN emitted : x.from = <<i, j>>} |-> emitted[s]]

SamplesOfCluster(i) ==
    [s \in {x \in DOMAIN emitted : x.from[1] = i} |-> emitted[s]]

RECURSIVE BagSize(_)
BagSize(bag) ==
    IF DOMAIN bag = {} THEN 0
    ELSE LET x == CHOOSE x \in DOMAIN bag : TRUE
         IN  bag[x] + BagSize([y \in (DOMAIN bag) \ {x} |-> bag[y]])

\* The total cost of the records of positions 1..upto of cluster i's response
\* that the pass processes and that lie in the namespace.
RECURSIVE NamespaceTotal(_, _, _)
NamespaceTotal(i, namespace, upto) ==
    IF upto = 0 THEN 0
    ELSE LET r == fetched[i].resources[upto]
         IN  (IF Processed(r) /\ r.Namespace = namespace THEN r.Total ELSE 0)
                 + NamespaceTotal(i, namespace, upto - 1)

NamespacesSeen(i, upto) ==
    {fetched[i].resources[j].Namespace :
        j \in {k \in 1 .. upto : Processed(fetched[i].resources[k])}}

\* The four samples of a record whose labels were found.
ExpectedWorkloadSamples(i, j, labels) ==
    LET cluster == clusters[i]
        r == fetched[i].resources[j]
        base == <<cluster.ID, cluster.Name, r.Namespace, r.Name, r.Type>>
                    \o LabelValues(labelMappings, labels)
        component(part, value) ==
            Sample("workload_resource_cost", value, base \o <<S(part)>>,
                   <<i, j>>, r.Namespace, part)
    IN  SetToBag({ Sample("workload_cost", r.Total, base, <<i, j>>, r.Namespace, "total"),
                   component("network", r.Total - r.Storage - r.Compute),
                   component("storage", r.Storage),
                   component("compute", r.Compute) })

\* The samples of cluster i that do not belong to one record: its total and
\* the totals of the namespaces whose labels were found.
ExpectedClusterLevelSamples(i) ==
    LET cluster == clusters[i]
        total == Sample("cluster_cost", fetched[i].total, <<cluster.ID, cluster.Name>>,
                        <<i, 0>>, <<>>, "total")
        namespaces ==
            { Sample("namespace_cost",
                     NamespaceTotal(i, n, Len(fetched[i].resources)),
                     <<cluster.ID, cluster.Name, n>>
                         \o LabelValues(labelMappings, nsLooked[i][n].labels),
                     <<i, 0>>, n, "total") :
                n \in {m \in DOMAIN nsLooked[i] : nsLooked[i][m].found} }
    IN  SetToBag({total} \cup namespaces)

\* C2: the total accumulated for a namespace, and the value of every
\* namespace sample, is the sum of the totals of all processed records of
\* that namespace in the cluster's response, found labels or not.
C2_NamespaceRollup ==
    /\ cpc \in {"resources", "namespaces"} =>
          /\ DOMAIN aggregatedNamespaceCost = NamespacesSeen(cIdx, rIdx - 1)
          /\ \A n \in DOMAIN aggregatedNamespaceCost :
                aggregatedNamespaceCost[n] = NamespaceTotal(cIdx, n, rIdx - 1)
    /\ \A s \in DOMAIN emitted :
          s.desc = "namespace_cost" =>
              s.value = NamespaceTotal(s.from[1], s.ns, Len(fetched[s.from[1]].resources))

\* A namespace whose two workloads cost 10 and 7, the labels of one of them
\* not found, has its total of 17 sent.
C2_Witness ==
    \E s \in DOMAIN emitted :
        /\ s.desc = "namespace_cost"
        /\ s.value = 17
        /\ \E j, k \in DOMAIN looked[s.from[1]] :
              /\ looked[s.from[1]][j].asked /\ ~looked[s.from[1]][j].found
              /\ looked[s.from[1]][k].asked /\ looked[s.from[1]][k].found
              /\ fetched[s.from[1]].resources[j].Namespace = s.ns
              /\ fetched[s.from[1]].resources[k].Namespace = s.ns

\* C3: a record whose label lookup failed has no sample, every record whose
\* lookup succeeded has exactly its own four samples whatever happened to
\* the others, and the pass goes on with the next record.
C3_CacheMissIsolation ==
    /\ \A i \in DOMAIN looked : \A j \in DOMAIN looked[i] :
          /\ (looked[i][j].asked /\ ~looked[i][j].found) => SamplesFrom(i, j) = EmptyBag
          /\ (looked[i][j].asked /\ looked[i][j].found) =>
                SamplesFrom(i, j) = ExpectedWorkloadSamples(i, j, looked[i][j].labels)
    /\ cpc = "resources" => Len(looked[cIdx]) = rIdx - 1

\* A finished pass in which one lookup failed and a later one succeeded.
C3_Witness ==
    /\ cpc = "done"
    /\ \E i \in DOMAIN looked : \E j, k \in DOMAIN looked[i] :
          /\ j < k
          /\ looked[i][j].asked /\ ~looked[i][j].found
          /\ looked[i][k].asked /\ looked[i][k].found
          /\ SamplesFrom(i, k) # EmptyBag

\* C4: when Collect has returned every cluster of the list was tried, a
\* cluster whose call failed has no sample, and a cluster whose call
\* succeeded has exactly the samples its own response and lookups give.
C4_ClusterFailureIsolation ==
    cpc = "done" =>
        /\ Len(fetched) = Len(clusters)
        /\ \A i \in DOMAIN fetched :
              /\ fetched[i].outcome = "error" => SamplesOfCluster(i) = EmptyBag
              /\ fetched[i].outcome = "ok" =>
                    /\ SamplesFrom(i, 0) = ExpectedClusterLevelSamples(i)
                    /\ \A j \in DOMAIN fetched[i].resources :
                          SamplesFrom(i, j) =
                              IF looked[i][j].found
                              THEN ExpectedWorkloadSamples(i, j, looked[i][j].labels)
                              ELSE EmptyBag
        /\ (\A i \in DOMAIN fetched : fetched[i].outcome = "error") => emitted = EmptyBag

\* The call for the first of two clusters failed, and the second has its
\* samples.
C4_Witness ==
    /\ cpc = "done"
    /\ Len(clusters) = 2
    /\ fetched[1].outcome = "error"
    /\ fetched[2].outcome = "ok"
    /\ BagSize(SamplesOfCluster(2)) > 1

\* The value a declared label name stands for in a sample.
LabelMeaning(s, k) ==
    LET names == VariableLabels(s.desc)
        cluster == clusters[s.from[1]]
        fixed == IF s.desc = "cluster_cost" THEN Len(names)
                 ELSE Len(names) - Len(labelMappings)
        labels == IF s.desc = "namespace_cost" THEN nsLooked[s.from[1]][s.ns].labels
                  ELSE looked[s.from[1]][s.from[2]].labels
    IN  IF k > fixed
        THEN MapValue(labels, labelMappings[k - fixed].resourceLabelName)
        ELSE CASE names[k] = "ocean_id" -> cluster.ID
               [] names[k] = "ocean_name" -> cluster.Name
               [] names[k] = "namespace" -> s.ns
               [] names[k] = "name" -> fetched[s.from[1]].resources[s.from[2]].Name
               [] names[k] = "workload" -> fetched[s.from[1]].resources[s.from[2]].Type
               [] names[k] = "resource" -> S(s.part)

\* C7: every sample has as many label values as its descriptor has label
\* names, and the value at each position is the value of the label name
\* declared at that position.
C7_LabelValueOrder ==
    \A s \in DOMAIN emitted :
        /\ Len(s.labelValues) = Len(VariableLabels(s.desc))
        /\ \A k \in DOMAIN s.labelValues : s.labelValues[k] = LabelMeaning(s, k)

\* C8: the network sample of a record is its total less its storage and its
\* compute component, each as the billing record reports it.
C8_NetworkIdentity ==
    \A s \in DOMAIN emitted :
        s.part = "network" =>
            LET r == fetched[s.from[1]].resources[s.from[2]]
            IN  s.value = r.Total - r.Storage - r.Compute

\* The namespace samples sent for a namespace of cluster i.
NamespaceSamples(i, namespace) ==
    [s \in {x \in DOMAIN emitted :
                x.desc = "namespace_cost" /\ x.from[1] = i /\ x.ns = namespace}
        |-> emitted[s]]

\* C5: a namespace of the response whose labels the cache holds, unexpired,
\* under kind "Namespace" when the collector asks for them has exactly one
\* namespace sample.
C5_NamespaceSampleAfterPopulation ==
    retriever = "cache" =>
        \A i \in DOMAIN nsLooked : \A n \in DOMAIN nsLooked[i] :
            nsLooked[i][n].stored => BagSize(NamespaceSamples(i, n)) = 1

\* C6: once PopulateOnce has returned, every workload of the data of a
\* cluster whose call succeeded is found under its kind, namespace, cluster
\* and name, with its own labels, until its entry expires.
C6_WorkloadKeyAgreement ==
    (ppc = "idle" /\ populations >= 1) =>
        \A w \in populated :
            (w.kind # S("Namespace") /\ now <= w.expires) =>
                GetLabelFor(w.kind, w.namespace, w.cluster, w.name) = Hit(w.labels)

\* The records of cluster i's response that lie in the namespace and are of
\* the kind of record j and have its name once timestamps and UUIDs are
\* stripped.
SameWorkload(i, j) ==
    LET r == fetched[i].resources[j]
    IN  {k \in DOMAIN fetched[i].resources :
            LET q == fetched[i].resources[k]
            IN  /\ q.Namespace = r.Namespace
                /\ q.Type = r.Type
                /\ NormalizeName(q.Name) = NormalizeName(r.Name)}

RECURSIVE TotalOf(_, _)
TotalOf(i, positions) ==
    IF positions = {} THEN 0
    ELSE LET k == CHOOSE k \in positions : TRUE
         IN  fetched[i].resources[k].Total + TotalOf(i, positions \ {k})

\* The workload samples sent for the records of cluster i at the positions.
WorkloadTotalSamples(i, positions) ==
    [s \in {x \in DOMAIN emitted :
                x.desc = "workload_cost" /\ x.from[1] = i /\ x.from[2] \in positions}
        |-> emitted[s]]

\* C11: records of one cluster, namespace and kind whose names differ only
\* by a timestamp or UUID, all with labels found, have one workload sample
\* between them when the pass is over: its name label is the stripped name
\* and its value the sum of their totals.
C11_ReductionApplied ==
    cpc = "done" =>
        \A i \in DOMAIN fetched : \A j \in DOMAIN fetched[i].resources :
            LET group == SameWorkload(i, j)
                sent == WorkloadTotalSamples(i, group)
            IN  (/\ \E k \in group :
                        fetched[i].resources[k].Name # fetched[i].resources[j].Name
                 /\ \A k \in group : looked[i][k].found)
                => /\ BagSize(sent) = 1
                   /\ \A s \in DOMAIN sent :
                         /\ s.labelValues[4] = NormalizeName(fetched[i].resources[j].Name)
                         /\ s.value = TotalOf(i, group)

\* The kinds of workload the billing data is attributed to, and the kind the
\* billing source gives to cost it attributes to no workload.
WorkloadKinds == {S("Deployment"), S("StatefulSet"), S("DaemonSet"), S("Job")}

SyntheticKind == S("UnusedStorage")

\* C12: a record of the response is handed to collectWorkloadCosts, and its
\* total added to its namespace, exactly if its kind is a workload kind; a
\* record of the synthetic kind is left out; the name plays no part.
C12_ExclusionByKind ==
    \A i \in DOMAIN looked : \A j \in DOMAIN looked[i] :
        LET r == fetched[i].resources[j]
        IN  /\ r.Type \in WorkloadKinds => looked[i][j].asked
            /\ r.Type = SyntheticKind => ~looked[i][j].asked

\* C13: every time.Sleep of PopulationLoop is asked for the same, strictly
\* positive duration.
C13_PopulationInterval ==
    \A k \in DOMAIN waited :
        /\ waited[k] > 0
        /\ waited[k] = waited[1]

\* C18: at most one PopulateOnce is in progress.
C18_NoOverlap ==
    Cardinality({c \in Callers : calls[c].pc # "idle"}) <= 1

\* The loop's PopulateOnce is in progress, after the one of main has returned.
C18_Witness ==
    /\ calls["loop"].pc = "store"
    /\ populations >= 1

\* C14: GetLabelFor finds a key only if a population wrote it no more than 60
\* minutes ago; for a key never written, or written longer ago, it returns
\* the error and no labels.
C14_BoundedStaleness ==
    \A p \in Probes :
        LET key == ProbeKey(p)
            a == GetLabelFor(p.resourceType, p.namespace, p.cluster, p.resourceIdentifier)
        IN  /\ a.found => (key \in DOMAIN written /\ now - written[key].at <= 60)
            /\ (key \notin DOMAIN written \/ now - written[key].at > 60) => a = Miss

\* The collector is registered, and a key written more than 60 minutes ago
\* is asked for and not found, while a key written since is found.
C14_Witness ==
    /\ Registered
    /\ \E p, q \in Probes :
          /\ ProbeKey(p) \in DOMAIN written
          /\ now - written[ProbeKey(p)].at > 60
          /\ ~GetLabelFor(p.resourceType, p.namespace, p.cluster,
                          p.resourceIdentifier).found
          /\ GetLabelFor(q.resourceType, q.namespace, q.cluster,
                         q.resourceIdentifier).found

\* The cache keys that begin with the cluster's ID.
KeysOfCluster(cache, cluster) == {k \in DOMAIN cache : <<k[1]>> = cluster}

\* The labels of the last of the Set calls made for the key.
RECURSIVE LastSet(_, _)
LastSet(sets, key) ==
    IF sets[Len(sets)].key = key THEN sets[Len(sets)].labels
    ELSE LastSet(SubSeq(sets, 1, Len(sets) - 1), key)

\* C16: in the PopulateOnce last begun, the entries of a cluster whose call
\* failed are as they were before it, the entries of a cluster whose call
\* succeeded and whose output is stored hold the labels of that output and
\* expire 60 minutes after they were set, and when it has returned it has
\* tried every cluster.
C16_PopulationFailureIsolation ==
    refresh.by # "none" =>
        LET call == calls[refresh.by]
            stored(i) == call.pc = "idle" \/ i < call.idx
        IN  /\ \A i \in DOMAIN refresh.outs :
                  LET cluster == clusters[i].ID
                      sets == ClusterSets(cluster, refresh.outs[i].namespaces, 1)
                  IN  /\ refresh.outs[i].outcome = "error" =>
                            /\ KeysOfCluster(labelCache, cluster)
                                   = KeysOfCluster(refresh.before, cluster)
                            /\ \A k \in KeysOfCluster(labelCache, cluster) :
                                  labelCache[k] = refresh.before[k]
                      /\ (refresh.outs[i].outcome = "ok" /\ stored(i)) =>
                            \A n \in DOMAIN sets :
                                /\ sets[n].key \in DOMAIN labelCache
                                /\ labelCache[sets[n].key].labels = LastSet(sets, sets[n].key)
                                /\ labelCache[sets[n].key].expires
                                       = written[sets[n].key].at + DefaultExpiration
            /\ call.pc = "idle" => Len(refresh.outs) = Len(clusters)

\* The loop's PopulateOnce has returned: the call for the first cluster, which
\* has entries from main's PopulateOnce, failed, the second cluster's did not.
C16_Witness ==
    /\ refresh.by = "loop"
    /\ calls["loop"].pc = "idle"
    /\ Len(refresh.outs) = 2
    /\ refresh.outs[1].outcome = "error"
    /\ refresh.outs[2].outcome = "ok"
    /\ KeysOfCluster(refresh.before, clusters[1].ID) # {}
    /\ KeysOfCluster(labelCache, clusters[2].ID) # {}

C15_ReadersNeverWrite ==
    looked # <<>> =>
        /\ labelCache = looked[1].before
        /\ ~looked[1].upstream

\* The number a sequence of decimal digits stands for; -1 when a character
\* is no digit.
RECURSIVE DigitsValue(_)
DigitsValue(chars) ==
    IF chars = <<>> THEN 0
    ELSE LET last == chars[Len(chars)]
             rest == DigitsValue(SubSeq(chars, 1, Len(chars) - 1))
         IN  IF rest < 0 \/ \A d \in 1..10 : DigitChars[d] # last THEN -1
             ELSE 10 * rest + (CHOOSE d \in 0..9 : DigitChars[d + 1] = last)

\* The text is YYYY-MM-DD and names the year, month and day.
IsDateText(text, year, month, day) ==
    /\ Len(text) = 10
    /\ text[5] = "-"
    /\ text[8] = "-"
    /\ DigitsValue(SubSeq(text, 1, 4)) = year
    /\ DigitsValue(SubSeq(text, 6, 7)) = month
    /\ DigitsValue(SubSeq(text, 9, 10)) = day

\* C19: whatever the current date, the start date computed is the text
\* YYYY-MM-01 of the current month and the end date the text YYYY-MM-01 of
\* the month after it, January of the next year in December; Collect and
\* PopulateOnce compute the same two texts.
C19_BillingWindow ==
    /\ \A c \in WindowCallers :
          window[c] # <<>> =>
              /\ IsDateText(window[c].fromDate, today.year, today.month, 1)
              /\ IsDateText(window[c].toDate,
                            IF today.month = 12 THEN today.year + 1 ELSE today.year,
                            IF today.month = 12 THEN 1 ELSE today.month + 1,
                            1)
    /\ (window["Collect"] # <<>> /\ window["PopulateOnce"] # <<>>)
          => window["Collect"] = window["PopulateOnce"]

\* Both have computed the window on a 31st of December.
C19_Witness ==
    /\ today.month = 12
    /\ today.day = 31
    /\ window["Collect"] # <<>>
    /\ window["PopulateOnce"] # <<>>
    /\ SubSeq(window["Collect"].fromDate, 5, 10) = <<"-", "1", "2", "-", "0", "1">>
    /\ SubSeq(window["PopulateOnce"].toDate, 5, 10) = <<"-", "0", "1", "-", "0", "1">>

\* The samples of record j of cluster i that have the descriptor and the
\* label values.
SamplesWith(i, j, desc, labelValues) ==
    LET all == SamplesFrom(i, j)
    IN  [s \in {x \in DOMAIN all : x.desc = desc /\ x.labelValues = labelValues}
            |-> all[s]]

\* C20: a record whose labels were found has exactly four samples: one
\* workload_cost sample with the record's total as its value, and one
\* workload_resource_cost sample for each of storage, compute and network,
\* all with the cluster, namespace, name, kind and mapped label values of
\* the record.
C20_FourSamples ==
    \A i \in DOMAIN looked : \A j \in DOMAIN looked[i] :
        (looked[i][j].asked /\ looked[i][j].found) =>
            LET r == fetched[i].resources[j]
                base == <<clusters[i].ID, clusters[i].Name, r.Namespace, r.Name, r.Type>>
                            \o LabelValues(labelMappings, looked[i][j].labels)
                totals == SamplesWith(i, j, "workload_cost", base)
            IN  /\ BagSize(SamplesFrom(i, j)) = 4
                /\ BagSize(totals) = 1
                /\ \A s \in DOMAIN totals : s.value = r.Total
                /\ \A part \in {"storage", "compute", "network"} :
                      BagSize(SamplesWith(i, j, "workload_resource_cost",
                                          base \o <<S(part)>>)) = 1

(***************************************************************************)
(* The cache keys of K8sOceanLabelRetriever: iterateOverResources stores   *)
(* under cacheKey, GetLabelFor reads under cacheKeyViaIdentifier.  The     *)
(* namespace and the identifier are strings of characters, ':' among them. *)
(***************************************************************************)
MaxPart == 2         \* the characters of one component of a key
MaxKeySets == 2      \* the tuples stored in one run

KeyChars == {"a", ":"}

KeyParts == SeqsUpTo(KeyChars, MaxPart)

\* The (cluster, kind, namespace, identifier) tuples.
KeyProbes ==
    { [resourceType |-> S("Deployment"), namespace |-> n, cluster |-> Foo.ID,
       resourceIdentifier |-> i] : n \in KeyParts, i \in KeyParts }

\* The label sets of the workloads besides app.kubernetes.io/name.
KeyLabels == { ("team" :> S("edge")), ("team" :> S("core")) }

\* One iteration of iterateOverResources: the workload is stored under the
\* key of its app.kubernetes.io/name label.
KeySet ==
    /\ Cardinality(DOMAIN keyWritten) < MaxKeySets
    /\ keyAsked = <<>>
    /\ \E p \in KeyProbes, l \in KeyLabels :
          LET deployable ==
                  [Labels |-> l @@ ("app.kubernetes.io/name" :> p.resourceIdentifier)]
          IN  /\ labelCache' = CacheSet(labelCache,
                                        cacheKey(p.resourceType, p.namespace,
                                                 p.cluster, deployable),
                                        deployable.Labels, now)
              /\ keyWritten' = [q \in (DOMAIN keyWritten) \cup {p} |->
                                   IF q = p THEN deployable.Labels
                                   ELSE keyWritten[q]]
    /\ UNCHANGED keyAsked
    /\ UNCHANGED <<now, ppc, pIdx, populations, populated>>
    /\ UNCHANGED <<reducerVars, configVars, collectVars, lifeVars, windowVars,
                   flagVars, scrapeVars>>

\* One GetLabelFor call.
KeyGet ==
    /\ keyAsked = <<>>
    /\ \E p \in KeyProbes :
          keyAsked' = <<[probe |-> p,
                         answer |-> GetLabelFor(p.resourceType, p.namespace,
                                                p.cluster, p.resourceIdentifier)]>>
    /\ UNCHANGED keyWritten
    /\ UNCHANGED <<reducerVars, configVars, collectVars, cacheVars, lifeVars,
                   windowVars, flagVars, scrapeVars>>

InitKeys ==
    /\ InitNormalizeIdle
    /\ InitReducerIdle
    /\ InitCollectorFieldsIdle
    /\ InitLifeIdle
    /\ InitWindowIdle
    /\ InitScrapesIdle
    /\ InitFlagIdle
    /\ InitKeysIdle

NextKeys == KeySet \/ KeyGet

SpecKeys == InitKeys /\ [][NextKeys]_vars


\* The cluster-total samples sent in the pass for cluster i.
ClusterTotalSamples(i) ==
    LET all == SamplesOfCluster(i)
    IN  [s \in {x \in DOMAIN all : x.desc = "cluster_cost"} |-> all[s]]

RECURSIVE SumOfNamespaceTotals(_)
SumOfNamespaceTotals(costs) ==
    IF DOMAIN costs = {} THEN 0
    ELSE LET n == CHOOSE n \in DOMAIN costs : TRUE
         IN  costs[n] + SumOfNamespaceTotals([m \in (DOMAIN costs) \ {n} |-> costs[m]])

AdjacentHyphens(name) ==
    \E k \in 1..(Len(name) - 1) : name[k] = "-" /\ name[k + 1] = "-"

\* C22: after the normalisation of an identifier, a name from which a match
\* was stripped has no two adjacent hyphens and neither starts nor ends with
\* a hyphen, and an identifier without a match is unchanged.
C22_SeparatorCollapse ==
    nApplied = 1 =>
        IF ReplaceAllString(nOrig, 1) # nOrig
        THEN /\ ~AdjacentHyphens(nName)
             /\ nName # <<>> => (Head(nName) # "-" /\ nName[Len(nName)] # "-")
        ELSE nName = nOrig

\* C23: the call leaves the name and the cost of every record passed in as
\* they were, and a second call on the same list returns the same
\* (name, cost) pairs as the first.
C23_ReducerPure ==
    rpc = "done" =>
        /\ resources = rInput
        /\ LET again == AggregateResult(resources)
           IN  Pairs(again.resources, again.cleaned) = Pairs(resources, cleaned)

\* The positions that bound the comma-separated pairs of a flag value: 0, the
\* commas, and the position after the last character.
PairBounds(value) ==
    {0, Len(value) + 1} \cup {k \in 1..Len(value) : value[k] = ","}

\* Some pair of the value, between two bounds with no comma between them, is
\* empty or begins with "=" (no resource label name), or has nothing after
\* its first "=" (no Prometheus label name).
HasEmptyLabelName(value) ==
    \E a, b \in PairBounds(value) :
        /\ a < b
        /\ \A k \in (a + 1)..(b - 1) : value[k] # ","
        /\ \/ b = a + 1
           \/ value[a + 1] = "="
           \/ /\ value[b - 1] = "="
              /\ \A k \in (a + 1)..(b - 2) : value[k] # "="

\* C24: ParseMappings returns the error, and no mappings, exactly for a value
\* with a pair that has an empty label name; after Mappings.Set with such a
\* value the mappings are those before the call, and after Set with a valid
\* value they are those before the call followed by the parsed ones.
C24_MalformedMappingsRejected ==
    flagSets > 0 =>
          /\ ParseMappings(flagValue).err <=> HasEmptyLabelName(flagValue)
          /\ ParseMappings(flagValue).err => ParseMappings(flagValue).mappings = <<>>
          /\ flagErr <=> HasEmptyLabelName(flagValue)
          /\ flagErr => flagMappings = flagBefore
          /\ ~flagErr =>
                /\ Len(flagMappings) > Len(flagBefore)
                /\ SubSeq(flagMappings, 1, Len(flagBefore)) = flagBefore
                /\ SubSeq(flagMappings, Len(flagBefore) + 1, Len(flagMappings))
                       = ParseMappings(flagValue).mappings

\* There were mappings, and Set with a value whose first pair has no
\* Prometheus label name has returned the error.
C24_Witness ==
    /\ flagSets = 1
    /\ flagErr
    /\ flagBefore # <<>>
    /\ flagMappings = flagBefore
    /\ flagValue = <<"a", "=", ",", "a">>

\* C25: LabelValues returns as many values as LabelNames returns names, and
\* its i-th value is the argument's value for the i-th mapping's resource
\* label name, or the empty string when the argument has no such key.
C25_LabelValuesAligned ==
    lv # <<>> =>
        /\ Len(lv.values) = Len(LabelNames(lv.m))
        /\ \A i \in 1..Len(lv.m) :
              lv.values[i] = IF lv.m[i].resourceLabelName \in DOMAIN lv.labels
                             THEN lv.labels[lv.m[i].resourceLabelName]
                             ELSE <<>>

\* LabelValues on two mappings whose Prometheus names differ from their
\* resource names, for a map that has the key of the first only.
C25_Witness ==
    /\ lv # <<>>
    /\ Len(lv.m) = 2
    /\ lv.m[1].resourceLabelName # lv.m[1].prometheusLabelName
    /\ lv.values[1] # <<>>
    /\ lv.values[2] = <<>>

\* C27: once main has registered the cost collector, and so before any scrape
\* reaches Collect, a PopulateOnce has returned and main is not inside its
\* own PopulateOnce call.
C27_WarmUpOrdering ==
    CollectorRegistered =>
        /\ populations >= 1
        /\ calls["main"].pc = "idle"

\* The collector is registered after main's PopulateOnce, the last one begun,
\* in which the call for one cluster failed and left it without entries
\* while another cluster has entries.
C27_Witness ==
    /\ CollectorRegistered
    /\ refresh.by = "main"
    /\ populations = 1
    /\ \E i, j \in DOMAIN refresh.outs :
          /\ refresh.outs[i].outcome = "error"
          /\ KeysOfCluster(labelCache, clusters[i].ID) = {}
          /\ refresh.outs[j].outcome = "ok"
          /\ KeysOfCluster(labelCache, clusters[j].ID) # {}

\* The total of the processed records of a response that lie in the
\* namespace.
ResponseNamespaceTotal(output, namespace) ==
    SumTotals(SelectSeq(output.resources,
                        LAMBDA r : Processed(r) /\ r.Namespace = namespace))

\* C28: in every scrape the map is empty when the loop over a cluster's
\* records begins, and every namespace sample sent for a cluster has as its
\* value the total of the processed records of that namespace in the response
\* this scrape got for this cluster, whatever the other clusters' responses
\* and the other scrape hold.
C28_AggregationLocal ==
    \A k \in Scrapes :
        /\ (passes[k].pc = "resources" /\ passes[k].rIdx = 1) => passes[k].costs = <<>>
        /\ \A s \in passes[k].sent :
              s.value = ResponseNamespaceTotal(passes[k].outputs[s.cluster], s.namespace)

\* Two scrapes overlap: the first has sent foo-ns for its first cluster and
\* now holds another total for foo-ns of its second cluster, while the second
\* scrape is in the middle of a cluster's records with its own total for
\* foo-ns.
C28_Witness ==
    LET a == passes["first"]
        b == passes["second"]
    IN  /\ a.pc = "namespaces"
        /\ a.cIdx = 2
        /\ \E s \in a.sent : s.cluster = 1 /\ s.namespace = S("foo-ns") /\ s.value = 10
        /\ S("foo-ns") \in DOMAIN a.costs
        /\ a.costs[S("foo-ns")] = 7
        /\ b.pc = "resources"
        /\ b.rIdx = 2
        /\ S("foo-ns") \in DOMAIN b.costs
        /\ b.costs[S("foo-ns")] = 10

\* C29: a billing response without error and without aggregated results does
\* not end the pass: Collect does not panic, and the cluster of such a
\* response has no sample.
C29_EmptyResponseNonFatal ==
    /\ cpc # "panic"
    /\ \A i \in DOMAIN fetched :
          fetched[i].outcome = "empty" => SamplesOfCluster(i) = EmptyBag

\* C30: two different (cluster, kind, namespace, identifier) tuples never have
\* the same cache key: every tuple stored still has the labels last stored
\* for it, and GetLabelFor answers a tuple with the labels stored for that
\* tuple, or with an error when nothing was stored for it.
C30_CacheKeysInjective ==
    /\ \A p \in DOMAIN keyWritten :
          CacheGet(labelCache, ProbeKey(p), now) = Hit(keyWritten[p])
    /\ \A k \in DOMAIN keyAsked :
          keyAsked[k].answer =
              IF keyAsked[k].probe \in DOMAIN keyWritten
              THEN Hit(keyWritten[keyAsked[k].probe])
              ELSE Miss

====
